---- MODULE Spec2Model ----
(***************************************************************************)
(* Multi-agent orchestration pipeline (src/multi_agent_openai.py).         *)
(*                                                                         *)
(* Spec         the orchestrator Pipe.pipe: planning, optional research,   *)
(*              phases of concurrently running agent tasks, relevance      *)
(*              propagation, synthesis, the top-level handler.             *)
(* SpecGateway  the Model Invocation Gateway: call_model (primary call,    *)
(*              timeout, one fallback) under call_model_with_cache, run by *)
(*              several concurrent callers over one shared cache.          *)
(***************************************************************************)
EXTENDS Integers, Sequences, FiniteSets, TLC

\* ------------------------------------------------------------------ bounds

\* Most agent objects in the planning model's JSON array.
MaxTeam == 2
\* Most research queries the query planner returns in a modelled run.
MaxQueries == 2

\* ------------------------------------------------------- planner (pure part)

\* a.get("name") of an agent object that has no "name" key.
NoName == "<missing>"

RawNames == {"Coordinator", "Analyst", NoName}

\* The "order" field of an agent object as the model wrote it: an integer, or
\* anything else (a string, a float, null, or no field at all).
RawOrders == {[isInt |-> TRUE, val |-> 0], [isInt |-> TRUE, val |-> 1],
              [isInt |-> FALSE, val |-> 0]}

RawAgents == [name : RawNames, order : RawOrders]

\* What the planning model can answer: text without a JSON array of objects,
\* a matched array that json.loads or the .get calls reject, or an array of
\* one or more agent objects.
ResponsesOver(objects) ==
    {[kind |-> "text", agents |-> <<>>], [kind |-> "badjson", agents |-> <<>>]}
    \cup {[kind |-> "json", agents |-> t] :
            t \in UNION {[1..n -> objects] : n \in 1..MaxTeam}}

\* Answers with one agent more: two agents named "Coordinator" around an
\* "Analyst", each with an integer order.
NamesakeResponses ==
    {[kind |-> "json",
      agents |-> <<[name |-> "Coordinator", order |-> [isInt |-> TRUE, val |-> a]],
                   [name |-> "Analyst", order |-> [isInt |-> TRUE, val |-> b]],
                   [name |-> "Coordinator", order |-> [isInt |-> TRUE, val |-> c]]>>] :
        a \in {0, 1}, b \in {0, 1}, c \in {0, 1}}

PlannerResponses == ResponsesOver(RawAgents) \cup NamesakeResponses

\* More "order" fields, for define_agents on its own: a negative integer, and
\* a value that is not an integer (the string "1", 1.5) whose reading is 1.
WideOrders == RawOrders \cup {[isInt |-> TRUE, val |-> -1], [isInt |-> FALSE, val |-> 1]}

WidePlannerResponses == ResponsesOver([name : RawNames, order : WideOrders])

DefaultCoordinator == [name |-> "Coordinator", order |-> [isInt |-> TRUE, val |-> 0]]

\* A faulty variant: no team at all when the answer cannot be used.
NoFallbackAgents == <<>>

\* Lines 451-479: the team returned from the except clause.
FallbackAgents ==
    << [name |-> "Coordinator", order |-> 0],
       [name |-> "Analyst", order |-> 1],
       [name |-> "Implementer", order |-> 2] >>

\* if not any(a.get("name") == "Coordinator" for a in agents): agents.insert(0, ...)
EnsureCoordinator(raw) ==
    IF \E i \in 1..Len(raw) : raw[i].name = "Coordinator"
    THEN raw
    ELSE <<DefaultCoordinator>> \o raw

\* A faulty variant: the order is taken as written.
KeepOrder(a) == [name |-> a.name, order |-> a.order.val]

\* if not isinstance(agent.get("order"), int): agent["order"] = 0
CoerceOrder(a) ==
    [name |-> a.name, order |-> IF a.order.isInt THEN a.order.val ELSE 0]

define_agents(resp) ==
    IF resp.kind = "json"
    THEN LET withCoord == EnsureCoordinator(resp.agents)
         IN  [i \in 1..Len(withCoord) |-> CoerceOrder(withCoord[i])]
    ELSE FallbackAgents

\* ------------------------------------------------------ schedule (pure part)

\* list.sort(key=order) is stable: insert x after the last element whose key
\* is not greater.
RECURSIVE InsertByOrder(_, _)
InsertByOrder(sorted, x) ==
    IF sorted = <<>> THEN <<x>>
    ELSE IF sorted[Len(sorted)].order <= x.order THEN Append(sorted, x)
    ELSE Append(InsertByOrder(SubSeq(sorted, 1, Len(sorted) - 1), x),
                sorted[Len(sorted)])

RECURSIVE SortByOrder(_)
SortByOrder(ags) ==
    IF ags = <<>> THEN <<>>
    ELSE InsertByOrder(SortByOrder(SubSeq(ags, 1, Len(ags) - 1)), ags[Len(ags)])

OrderSet(ags) == {ags[i].order : i \in 1..Len(ags)}

RECURSIVE AscendingSeq(_)
AscendingSeq(S) ==
    IF S = {} THEN <<>>
    ELSE LET m == CHOOSE x \in S : \A y \in S : x <= y
         IN  <<m>> \o AscendingSeq(S \ {m})

\* A faulty variant: the schedule in descending order (sorted(..., reverse=True)).
SortedOrdersDescending(ags) ==
    LET asc == AscendingSeq(OrderSet(ags))
    IN  [k \in 1..Len(asc) |-> asc[Len(asc) + 1 - k]]

\* sorted(agents_by_order.keys())
SortedOrders(ags) == AscendingSeq(OrderSet(ags))

\* A faulty variant: a phase takes every agent up to its order.
PhaseAgentsUpTo(ags, o) == {i \in 1..Len(ags) : ags[i].order <= o}

\* agents_by_order[o], as indices into the sorted agent list, in list order.
PhaseAgents(ags, o) == {i \in 1..Len(ags) : ags[i].order = o}


\* Indices of agents_by_order[o] as the sequence the phase loop walks.
RECURSIVE AscendingIdx(_)
AscendingIdx(S) ==
    IF S = {} THEN <<>>
    ELSE LET m == CHOOSE x \in S : \A y \in S : x <= y
         IN  <<m>> \o AscendingIdx(S \ {m})

PhaseSeq(ags, o) == AscendingIdx(PhaseAgents(ags, o))

\* ------------------------------------------------------ request (pure part)

\* Most turns in body["messages"].
MaxTurns == 2

Contents == {"task A", "task B"}

Turns == [role : {"user", "assistant"}, content : Contents]

\* body.get("messages", []): no turn at all, or up to MaxTurns turns.
Bodies == UNION {[1..n -> Turns] : n \in 0..MaxTurns}

NoTask == "<no task>"

IsUserTurn(m) == m.role = "user"

\* Line 641: [msg for msg in messages if msg.get("role") == "user"]
UserMessages(msgs) == SelectSeq(msgs, IsUserTurn)

\* A faulty variant: the first user turn is taken.
FirstUserTask(msgs) == UserMessages(msgs)[1].content

\* Line 644: user_messages[-1]["content"]
TaskOf(msgs) == UserMessages(msgs)[Len(UserMessages(msgs))].content

\* --------------------------------------------- research planner (pure part)

\* Most entries in a research planner answer.
MaxListed == 4

\* An entry of the answer: a query string, or "#" for a JSON value that is
\* not a string (a number, an object, null).
QueryStrings == {"q1", "q2"}
NotAString == "#"

SeqsUpTo(S, n) == UNION {[1..k -> S] : k \in 0..n}

\* What the model can answer to _get_research_queries: "NONE", a JSON list,
\* valid JSON that is not a list, text that is not JSON and holds some
\* double-quoted strings, or no content at all (None).
QueryResponses(n) ==
    {[kind |-> "none", items |-> <<>>], [kind |-> "scalar", items |-> <<>>],
     [kind |-> "null", items |-> <<>>]}
    \cup {[kind |-> "json", items |-> t] : t \in SeqsUpTo(QueryStrings \cup {NotAString}, n)}
    \cup {[kind |-> "text", items |-> t] : t \in SeqsUpTo(QueryStrings, n)}

\* Lines 331-350: the list returned for an answer, and whether an exception
\* left the function. No branch shortens the list.
get_research_queries(resp) ==
    IF resp.kind = "json" /\ \A k \in DOMAIN resp.items : resp.items[k] # NotAString
    THEN [raised |-> FALSE, list |-> resp.items]
    ELSE IF resp.kind = "text"
    THEN [raised |-> FALSE, list |-> resp.items]
    ELSE [raised |-> FALSE, list |-> <<>>]

\* ------------------------------------------------ RAG client (pure part)

\* Most results left after the relevance cut and [:top_k].
MaxResults == 3

\* result.source of a DocumentResult whose metadata names no source (None, or
\* an empty string).
NoSource == "<none>"

\* Source names: two file names, and a file whose name is the text "N/A".
Sources == {"a.pdf", "b.pdf", "N/A", NoSource}

\* The ranked results, as far as the citation step reads them.
RankedResults == SeqsUpTo([source : Sources], MaxResults)

\* Lines 223 and 537: result.source or result.metadata.get("source") or "N/A".
\* result.source was set from the same metadata at line 341, so the middle
\* operand is falsy whenever the first one is.
SourceId(r) == IF r.source = NoSource THEN "N/A" ELSE r.source

\* A faulty variant: every new source gets the id 1.
AlwaysFirstId(m) == 1

\* Line 225: len(citation_idx_map) + 1
NextCitationId(m) == Cardinality(DOMAIN m) + 1

\* Lines 221-226: citation_idx_map after the first k results.
RECURSIVE CitationIdxMap(_, _)
CitationIdxMap(results, k) ==
    IF k = 0 THEN <<>>
    ELSE LET m == CitationIdxMap(results, k - 1)
             sid == SourceId(results[k])
         IN  IF sid \in DOMAIN m THEN m ELSE (sid :> NextCitationId(m)) @@ m

\* Lines 221-226: the citation_id each result ends with, in rank order.
AssignCitationIds(results) ==
    [k \in 1..Len(results) |-> CitationIdxMap(results, k)[SourceId(results[k])]]

\* A text is a sequence of pieces: a piece is one of the four placeholders
\* that format_sources_for_llm replaces, or text that holds none of them.
MaxPieces == 2

\* Lines 41-66: the template holds {{CONTEXT}} and {{QUERY}} once each, and
\* neither [context] nor [query].
DEFAULT_RAG_TEMPLATE ==
    <<"### Task: ... <context>", "{{CONTEXT}}", "</context> Query: ", "{{QUERY}}">>

\* context_string is None.
NoContext == [given |-> FALSE, text |-> <<>>]

\* Context strings: document text in source tags, which may quote a
\* placeholder.
ContextStrings ==
    SeqsUpTo({"<source id=1>hello</source>", "{{CONTEXT}}", "[query]", "{{QUERY}}"},
             MaxPieces)

\* Query texts.
QueryTexts == SeqsUpTo({"Q", "{{QUERY}}"}, MaxPieces) \ {<<>>}

\* A RAGQueryResponse, as far as format_sources_for_llm reads it; results is
\* the number of results.
RAGQueryResponses ==
    [context_string : {NoContext} \cup {[given |-> TRUE, text |-> t] : t \in ContextStrings},
     query : QueryTexts,
     results : 0..1]

\* Lines 367-382: one source tag per result, joined by newlines.
RECURSIVE format_context_for_llm(_)
format_context_for_llm(n) ==
    IF n = 0 THEN <<>>
    ELSE IF n = 1 THEN <<"<source id=1>hello</source>">>
    ELSE format_context_for_llm(n - 1) \o <<"\n", "<source id=1>hello</source>">>

\* str.replace(old, new): every occurrence of old, left to right; the text
\* put in is not searched again.
RECURSIVE Replace(_, _, _)
Replace(text, old, new) ==
    IF text = <<>> THEN <<>>
    ELSE (IF Head(text) = old THEN new ELSE <<Head(text)>>)
         \o Replace(Tail(text), old, new)

\* Lines 409-411: the context string, or the one made from the results.
ContextOf(response) ==
    IF response.context_string.given THEN response.context_string.text
    ELSE IF response.results > 0 THEN format_context_for_llm(response.results)
    ELSE <<>>

\* Lines 405-419 with rag_template None: the four replacements, one after
\* the other, each over the result of the one before.
format_sources_for_llm(response) ==
    Replace(Replace(Replace(Replace(DEFAULT_RAG_TEMPLATE,
                                    "[context]", ContextOf(response)),
                            "{{CONTEXT}}", ContextOf(response)),
                    "[query]", response.query),
            "{{QUERY}}", response.query)

\* ------------------------------------- RAG client: merge and rank (pure part)

\* Documents one collection query returns.
MaxDocs == 2

\* Largest top_k passed.
MaxTopK == 2

\* The knowledge bases /api/v1/knowledge/list names, in its order.
KnowledgeBases == <<"kb1", "kb2">>

\* Distances and scores in hundredths. data["distances"]: what the backend
\* reports, which for cosine distance lies between 0 and 2 and for other
\* metrics and rerankers does not.
Distances == {-100, 100, 300}

\* relevance_threshold, in hundredths.
Thresholds == {0, 50, 100}

TopKs == 0..MaxTopK

\* Line 334: max(0.0, 1.0 - (distance / 2.0))
RelevanceScore(d) == IF 100 - (d \div 2) > 0 THEN 100 - (d \div 2) ELSE 0

\* How the query of one collection ends: an exception (line 347, or any other
\* raised inside _query_single_collection), or the distances of its documents.
QueryFailed == [failed |-> TRUE, distances |-> <<>>]

CollectionOutcomes ==
    {QueryFailed} \cup [failed : {FALSE}, distances : SeqsUpTo(Distances, MaxDocs)]

\* One call of query_rag_for_user: how fetching the collection list ends
\* ("error": _get_user_collections raises; else the collections listed, none
\* for an empty list), how each collection's query ends, and the arguments.
RagCalls ==
    [list : {"error"}, queries : {<<>>}, relevance_threshold : {0}, top_k : {MaxTopK}]
    \cup [list : {"ok"},
          queries : UNION {[1..n -> CollectionOutcomes] : n \in 0..Len(KnowledgeBases)},
          relevance_threshold : Thresholds, top_k : TopKs]

\* Lines 328-345: the DocumentResults of collection ci, as far as ranking
\* reads them.
query_single_collection(ci, out) ==
    [k \in 1..Len(out.distances) |->
        [collection |-> KnowledgeBases[ci], doc |-> k,
         distance |-> out.distances[k],
         relevance_score |-> RelevanceScore(out.distances[k])]]

\* A faulty variant of the gathering: nothing is merged when a query failed.
RECURSIVE MergeAllOrNothing(_)
MergeAllOrNothing(queries) ==
    IF \E ci \in DOMAIN queries : queries[ci].failed THEN <<>>
    ELSE IF queries = <<>> THEN <<>>
    ELSE MergeAllOrNothing(SubSeq(queries, 1, Len(queries) - 1))
            \o query_single_collection(Len(queries), queries[Len(queries)])

\* Lines 198-205: all_results, the results of the collections whose query did
\* not fail, in collection order.
RECURSIVE MergeResults(_)
MergeResults(queries) ==
    IF queries = <<>> THEN <<>>
    ELSE MergeResults(SubSeq(queries, 1, Len(queries) - 1))
            \o (IF queries[Len(queries)].failed THEN <<>>
                ELSE query_single_collection(Len(queries), queries[Len(queries)]))

\* A faulty variant: the results stay in the order they were merged in.
InsertAtEnd(sorted, x) == Append(sorted, x)

\* list.sort(key=relevance_score, reverse=True) is stable: x goes after the
\* last element whose score is not lower.
RECURSIVE InsertByScore(_, _)
InsertByScore(sorted, x) ==
    IF sorted = <<>> THEN <<x>>
    ELSE IF sorted[Len(sorted)].relevance_score >= x.relevance_score
         THEN Append(sorted, x)
         ELSE Append(InsertByScore(SubSeq(sorted, 1, Len(sorted) - 1), x),
                     sorted[Len(sorted)])

\* Line 208.
RECURSIVE SortByScore(_)
SortByScore(results) ==
    IF results = <<>> THEN <<>>
    ELSE InsertByScore(SortByScore(SubSeq(results, 1, Len(results) - 1)),
                       results[Len(results)])

\* Lines 211-214: the comprehension over the threshold.
AboveThreshold(results, threshold) ==
    LET Meets(r) == r.relevance_score >= threshold
    IN  SelectSeq(results, Meets)

\* Line 214: [:top_k], for top_k >= 0.
FirstK(results, k) == SubSeq(results, 1, IF k < Len(results) THEN k ELSE Len(results))

\* Lines 163-245 of query_rag_for_user: an exception, or the response.
query_rag_for_user(c) ==
    IF c.list = "error" THEN [kind |-> "raise", error |-> "HTTPError"]
    ELSE IF c.queries = <<>> THEN [kind |-> "raise", error |-> "ValueError"]
    ELSE LET filtered_results ==
                FirstK(AboveThreshold(SortByScore(MergeResults(c.queries)),
                                      c.relevance_threshold),
                       c.top_k)
         IN  [kind |-> "response",
              results |-> filtered_results,
              total_results |-> Len(filtered_results),
              collections_searched |-> SubSeq(KnowledgeBases, 1, Len(c.queries))]

\* ------------------------------------------------- browse_for_information

\* URLs a search can return for one query.
MaxUrls == 2

\* item["url"] of the search results, in their order (lines 231-234).
Urls == <<"url1", "url2", "url3">>

\* How the read request of one URL ends (lines 249-283): content, a response
\* without content, an HTTP error status, a body that is not JSON, another
\* exception while reading the response, or a request that failed in gather.
ReadOutcomes == {"content", "empty", "http_error", "json_error", "other_error",
                 "failed"}

\* How the search ends: no API key (line 201), a request error (line 298), an
\* error status (line 300), no data (line 225), no item with a URL (line 236),
\* or URLs to read.
SearchOutcomes == {"no_key", "request_error", "status_error", "no_data", "no_urls",
                   "urls"}

\* What the Jina services do for one query.
BrowseOutcomes ==
    [search : SearchOutcomes \ {"urls"}, reads : {<<>>}]
        \cup [search : {"urls"}, reads : SeqsUpTo(ReadOutcomes, MaxUrls) \ {<<>>}]

\* Texts are sequences of words. Line 202.
NoKeyMessage == <<"Jina", "AI", "API", "Key", "is", "not", "configured">>

\* Line 225.
NoResultsMessage == <<"No", "useful", "search", "results", "found">>

\* Line 237.
NoUrlsMessage == <<"No", "valid", "URLs", "found">>

\* Line 286.
NoContentMessage == <<"No", "readable", "content", "extracted">>

\* Line 299.
ConnectMessage == <<"Error", "connecting", "to", "Jina", "AI", "API">>

\* Line 301.
StatusMessage == <<"Jina", "AI", "Search", "API", "returned", "an", "error",
                   "status">>

\* Lines 253-283: what the i-th read adds to combined_content.
ReadPiece(i, r) ==
    CASE r = "content" -> <<"---", "Source:", Urls[i], "---", "content", "of", Urls[i]>>
      [] r = "empty" -> <<>>
      [] r = "http_error" -> <<"---", "Error", "reading", Urls[i], "HTTP", "---">>
      [] r = "json_error" ->
            <<"---", "Error", "decoding", "JSON", "from", Urls[i], "---">>
      [] r = "other_error" -> <<"---", "Unexpected", "error", "reading", Urls[i], "---">>
      [] r = "failed" -> <<"---", "Request", "to", Urls[i], "failed", "---">>

\* Lines 250-283 and the join of line 296.
RECURSIVE CombinedContent(_)
CombinedContent(reads) ==
    IF reads = <<>> THEN <<>>
    ELSE CombinedContent(SubSeq(reads, 1, Len(reads) - 1))
            \o ReadPiece(Len(reads), reads[Len(reads)])

\* browse_for_information (lines 193-303) for one query, with browsing enabled.
browse_for_information(out) ==
    CASE out.search = "no_key" -> NoKeyMessage
      [] out.search = "request_error" -> ConnectMessage
      [] out.search = "status_error" -> StatusMessage
      [] out.search = "no_data" -> NoResultsMessage
      [] out.search = "no_urls" -> NoUrlsMessage
      [] out.search = "urls" ->
            IF CombinedContent(out.reads) = <<>>
            THEN NoContentMessage
            ELSE CombinedContent(out.reads)

\* word in text
Mentions(text, word) == \E k \in DOMAIN text : text[k] = word

\* Line 696: "Error" not in raw_results and raw_results.strip()
Summarizable(raw) == ~Mentions(raw, "Error") /\ raw # <<>>

\* Lines 693-705 for one query: the text browse_for_information returned and
\* the texts handed to _summarize_research_results, each of which goes to the
\* Gateway (lines 358, 375) and gives one entry of all_summarized_research.
research_step(out) ==
    LET raw == browse_for_information(out)
    IN  [raw |-> raw,
         summarized |-> IF Summarizable(raw) THEN <<raw>> ELSE <<>>]

\* ------------------------------------------------------------- run_agent

\* Texts of run_agent are sequences of characters. str.lower() for the capital
\* letters the agent texts below use.
LowerOf == ("A" :> "a") @@ ("C" :> "c") @@ ("D" :> "d") @@ ("E" :> "e") @@ ("L" :> "l") @@ ("W" :> "w")

Lower(text) ==
    [k \in DOMAIN text |-> IF text[k] \in DOMAIN LowerOf THEN LowerOf[text[k]] ELSE text[k]]

\* pat in text
Contains(text, pat) ==
    \E k \in 0..(Len(text) - Len(pat)) : SubSeq(text, k + 1, k + Len(pat)) = pat

\* " ".join(list)
RECURSIVE Join(_)
Join(list) ==
    IF list = <<>> THEN <<>>
    ELSE IF Len(list) = 1 THEN list[1]
    ELSE list[1] \o <<" ">> \o Join(Tail(list))

\* agent.get("name", ""): the Coordinator, another coordinator, others, no name.
AgentNames ==
    {<<"C", "o", "o", "r", "d", "i", "n", "a", "t", "o", "r">>,
     <<"L", "e", "a", "d", " ", "C", "o", "o", "r", "d", "i", "n", "a", "t", "o", "r">>,
     <<"A", "n", "a", "l", "y", "s", "t">>,
     <<>>}

\* agent.get("role", "")
AgentRoles ==
    {<<"C", "o", "o", "r", "d", "i", "n", "a", "t", "e", "s", " ", "t", "h", "e", " ", "t", "e", "a", "m">>,
     <<"C", "o", "o", "r", "d", "i", "n", "a", "t", "i", "n", "g", " ", "t", "h", "e", " ", "t", "e", "a", "m">>,
     <<"W", "r", "i", "t", "e", "s", " ", "t", "e", "x", "t">>}

\* agent.get("specialty", "")
AgentSpecialties ==
    {<<"D", "a", "t", "a", " ", "A", "n", "a", "l", "y", "s", "i", "s">>,
     <<"D", "r", "a", "f", "t", "i", "n", "g">>}

\* agent.get("tasks", [])
AgentTasks ==
    {<<>>,
     <<<<"W", "r", "i", "t", "e", " ", "a", " ", "d", "r", "a", "f", "t">>>>,
     <<<<"E", "v", "a", "l", "u", "a", "t", "e", " ", "o", "p", "t", "i", "o", "n", "s">>>>,
     <<<<"W", "r", "i", "t", "e", " ", "a", " ", "d", "r", "a", "f", "t">>,
       <<"A", "n", "a", "l", "y", "z", "e", " ", "d", "a", "t", "a">>>>}

AgentObjects ==
    [name : AgentNames, role : AgentRoles, specialty : AgentSpecialties,
     tasks : AgentTasks]

\* Line 493: the role test's word.
CoordinateWord == <<"c", "o", "o", "r", "d", "i", "n", "a", "t", "e">>

\* Line 493: the name the lower-cased name is compared with.
CoordinatorName == <<"c", "o", "o", "r", "d", "i", "n", "a", "t", "o", "r">>

\* Lines 497-504.
SpecialtyKeywords ==
    {<<"t", "h", "i", "n", "k", "i", "n", "g">>,
     <<"a", "n", "a", "l", "y", "s", "i", "s">>,
     <<"r", "e", "a", "s", "o", "n", "i", "n", "g">>,
     <<"s", "t", "r", "a", "t", "e", "g", "i", "c">>,
     <<"s", "y", "n", "t", "h", "e", "s", "i", "s">>,
     <<"a", "n", "a", "l", "y", "s", "t">>}

\* Line 508.
TaskKeywords ==
    {<<"a", "n", "a", "l", "y", "z", "e">>,
     <<"e", "v", "a", "l", "u", "a", "t", "e">>,
     <<"i", "n", "t", "e", "r", "p", "r", "e", "t">>,
     <<"s", "y", "n", "t", "h", "e", "s", "i", "z", "e">>}

\* The stem "coordinat".
CoordinatStem == <<"c", "o", "o", "r", "d", "i", "n", "a", "t">>

\* A word of the text starts with the stem, in any letter case.
HasWordStarting(text, stem) ==
    \E k \in 0..(Len(text) - Len(stem)) :
        /\ SubSeq(Lower(text), k + 1, k + Len(stem)) = stem
        /\ k > 0 => text[k] = " "

\* A faulty variant: any word starting with "coordinat" in the name or role.
IsCoordinatWordAgent(agent) ==
    HasWordStarting(agent.name, CoordinatStem) \/ HasWordStarting(agent.role, CoordinatStem)

\* Line 493: agent_name_lower == "coordinator" or "coordinate" in agent_role_lower
IsCoordinatorAgent(agent) ==
    Lower(agent.name) = CoordinatorName \/ Contains(Lower(agent.role), CoordinateWord)

\* Lines 495-509: the elif test.
IsThinkingAgent(agent) ==
    \/ \E kw \in SpecialtyKeywords : Contains(Lower(agent.specialty), kw)
    \/ \E kw \in TaskKeywords : Contains(Lower(Join(agent.tasks)), kw)

\* Lines 486-510: model_to_use, as the name of the valve it is read from.
model_to_use(agent) ==
    IF IsCoordinatorAgent(agent) THEN "COORDINATOR_MODEL"
    ELSE IF IsThinkingAgent(agent) THEN "THINKING_MODEL"
    ELSE "EXECUTION_MODEL"

\* Line 543: the length a result is cut to.
PreviewLimit == 500

\* Line 543: "..."
Ellipsis == <<".", ".", ".">>

\* A faulty variant: the result is cut and nothing is added.
CutResult(result) ==
    IF Len(result) > PreviewLimit THEN SubSeq(result, 1, PreviewLimit) ELSE result

\* Line 543: result[:500] + "..." if len(result) > 500 else result
Preview(result) ==
    IF Len(result) > PreviewLimit
    THEN SubSeq(result, 1, PreviewLimit) \o Ellipsis
    ELSE result

\* Lengths of the Gateway's answers run_agent is applied to.
ResultLengths == {0, 1, PreviewLimit - 1, PreviewLimit, PreviewLimit + 1, PreviewLimit + 100}

ResultTexts == {[k \in 1..n |-> IF k % 2 = 0 THEN "a" ELSE "b"] : n \in ResultLengths}

\* One call of run_agent: the agent, whether an emitter is given, the valve
\* VISUALIZE_AGENTS, and what the Gateway answers.
RunAgentCalls ==
    [agent : AgentObjects, emitter : BOOLEAN, visualize : BOOLEAN,
     result : ResultTexts]

\* Lines 526 and 540: if __event_emitter__ and self.valves.VISUALIZE_AGENTS
Visualizes(c) == c.emitter /\ c.visualize

\* ------------------------------------ companion filter: files and chat meta
\* src/openai_companion_filter_extended.py.  Time is counted in days.

NumInlets == 2
MaxFiles == 2
MaxClock == 1

\* Line 30: DAY = 86_400 seconds, one unit of the clock here.
DAY == 1

\* Line 31
SUPPORTED_FILE_TYPES == {".xlsx", ".csv", ".xls"}

Inlets == 1..NumInlets

\* The entries of __metadata__["files"]: the content hash of the file (lines
\* 113-115) and the extension of its filename.
UploadedFiles ==
    {[hash |-> "h1", ext |-> ".xlsx"],
     [hash |-> "h2", ext |-> ".csv"],
     [hash |-> "h2", ext |-> ".pdf"]}

FileLists == SeqsUpTo(UploadedFiles, MaxFiles)

\* Lines 89-92
IsSpreadsheet(f) == f.ext \in SUPPORTED_FILE_TYPES

spreadsheet_files(files) == SelectSeq(files, IsSpreadsheet)

\* body["messages"] on entry: message contents are block lists already.
TextBlock == [type |-> "text"]

InputFile(fid) == [type |-> "input_file", file_id |-> fid]

InletBodies ==
    {<<[role |-> "user", content |-> <<TextBlock>>]>>,
     <<[role |-> "user", content |-> <<TextBlock>>],
       [role |-> "assistant", content |-> <<TextBlock>>]>>}

\* Lines 326-330 of _ensure_user_msg: the last message when it is a user
\* message, else a new user message appended.
ensure_user_msg(msgs) ==
    IF msgs # <<>> /\ msgs[Len(msgs)].role = "user"
    THEN msgs
    ELSE Append(msgs, [role |-> "user", content |-> <<>>])

\* Lines 128-130 and 167-169: content.insert(0, input_file block).
InsertFile(msgs, fid) ==
    [ensure_user_msg(msgs) EXCEPT
        ![Len(ensure_user_msg(msgs))].content = <<InputFile(fid)>> \o @]

\* Lines 209-214: the entry stored for a hash (the filename and the upload
\* time are never read back).
CacheEntry(fid, exp_at) == [openai_file_id |-> fid, openai_expires_at |-> exp_at]

\* Lines 117-123: the entry of file_cache c for hash h can be reused at time
\* t.  Every id that _upload_file returns is a non-empty string, so the test
\* of fid on line 123 passes for every stored entry.
Reusable(c, h, t) == h \in DOMAIN c /\ c[h].openai_expires_at > t + DAY

\* What the answer to an upload says of the expiry of the file.
ExpiryOutcomes == {"absent", "in two days"}

\* Lines 266 and 312: expires_at of the file uploaded at time t: 0 when the
\* answer carries none.
expires_at(o, t) == IF o = "absent" THEN 0 ELSE t + DAY + 1

\* Lines 176-184 of _get_chat_file_cache on the Chats table tbl.
get_chat_file_cache(tbl, id) == IF id \in DOMAIN tbl THEN tbl[id] ELSE <<>>

\* Lines 199-219 of _save_to_chat_meta.
save_to_chat_meta(tbl, id, h, fid, exp_at) ==
    IF id \in DOMAIN tbl
    THEN [tbl EXCEPT ![id] = (h :> CacheEntry(fid, exp_at)) @@ @]
    ELSE tbl

\* An inlet call not made yet.
IdleInlet ==
    [pc |-> "idle", files |-> <<>>, idx |-> 0, chat_file_cache |-> <<>>,
     body |-> <<>>, stored |-> {}]

\* ------------------------------------------------------------------ state

VARIABLES
    messages,           \* body["messages"], while pipe and the planner read it
    user_task,          \* the task text taken from it, likewise
    valves,             \* the Valves settings of this Pipe
    emitter,            \* __event_emitter__: "none", "ok", or "broken" (it raises)
    pc,                 \* where Pipe.pipe stands
    agents,             \* the sorted agent list
    sorted_orders,      \* the phase schedule
    phase,              \* index into sorted_orders of the current phase
    waitPos,            \* position in current_phase_tasks being awaited
    propPos,            \* index of future_agent in the propagation loop
    task,               \* per agent index: state of its run_agent task
    taskCtx,            \* per agent index: the context its task was created with
    planTask,           \* state of define_agents_task
    synthTask,          \* state of synthesis_task
    active_tasks,       \* the set active_tasks
    agent_contexts,     \* name -> sequence of context entries
    all_completed_agent_results, \* name -> result text
    progress_messages,  \* the progress trace
    research_queries,   \* number of queries the research planner returned
    queryPos,           \* index of the query being researched
    raw_results,        \* what browse_for_information returned for it, while it is read
    all_summarized_research, \* the queries summarized so far
    overall_research_context, \* the queries whose summary is in the block
    relLog,             \* every finished is_relevant evaluation
    events,             \* what the notification sink received from pipe itself
    agent_events,       \* per agent index: what it received from that run_agent task
    synthInputs,        \* the mappings synthesize_results was called with
    output,             \* what pipe returned
    \* ---- gateway (SpecGateway)
    cache,              \* self.cache: cache key -> response
    client,             \* self.client: "none" or "ready"
    call,               \* per caller: its call_model_with_cache activation
    started,            \* number of call_model_with_cache calls made so far
    returned,           \* request -> the responses returned for it so far
    primaryCalls,       \* request -> primary completions.create calls made for it
    overlapped,         \* cache keys that two calls were computing at one time
    lastCaller,         \* the caller that made the latest call
    \* ---- functions applied on their own (SpecPure)
    fn,                 \* the function applied
    arg,                \* its argument
    res,                \* [done, val]: whether it returned, and what
    \* ---- companion filter (SpecFilter)
    filter_valves,      \* the merged Valves of the Filter
    chat_id,            \* __metadata__["chat_id"]: "none" or the chat's id
    chats,              \* the Chats table: chat id -> its openai_file_cache
    now,                \* time.time(), in days
    inlet,              \* per request: its Filter.inlet activation
    running,            \* the inlet call the event loop is running, 0 if none
    handled             \* every spreadsheet file an inlet call dealt with

pipeVars == <<messages, user_task, valves, emitter, pc, agents, sorted_orders, phase, waitPos,
              propPos, task, taskCtx, planTask, synthTask, active_tasks,
              agent_contexts, all_completed_agent_results, progress_messages,
              research_queries, queryPos, raw_results, all_summarized_research,
              overall_research_context, relLog, events, agent_events, synthInputs,
              output>>

gatewayVars == <<cache, client, call, started, returned, primaryCalls, overlapped,
                 lastCaller>>

pureVars == <<fn, arg, res>>

filterVars == <<filter_valves, chat_id, chats, now, inlet, running, handled>>

vars == <<pipeVars, gatewayVars, pureVars, filterVars>>

\* --------------------------------------------------------- pipe: helpers

PlanId == <<"plan", 0>>
SynthId == <<"synth", 0>>
AgentId(i) == <<"agent", i>>

\* The event emitter is used by the steps that test VISUALIZE_AGENTS.
UsesEmitter == emitter # "none" /\ valves.VISUALIZE_AGENTS

Emitted(evs, e) == IF emitter = "ok" THEN Append(evs, e) ELSE evs

Event(type, info, who) == [type |-> type, info |-> info, who |-> who]

Line(kind, who) == [line |-> kind, who |-> who]

NameSet(ags) == {ags[i].name : i \in 1..Len(ags)}

\* One "Output from <name>:\n<result>" block; the text an execution produced
\* is named by the index of the agent that ran.
OutputEntry(ags, i) == [kind |-> "output", from |-> ags[i].name, text |-> <<i>>]

\* initial_context: the task line, then the research block when there is one.
InitialContext(tk, research) ==
    IF research = <<>>
    THEN << [kind |-> "task", from |-> "", text |-> <<tk>>] >>
    ELSE << [kind |-> "task", from |-> "", text |-> <<tk>>],
            [kind |-> "research", from |-> "", text |-> research] >>

\* A faulty variant: the research block is left out.
TaskOnlyContexts(ags, tk, research) == [n \in NameSet(ags) |-> InitialContext(tk, <<>>)]

\* Lines 714-719: agent_contexts, one initial_context per agent name.
InitialContexts(ags, tk, research) ==
    [n \in NameSet(ags) |-> InitialContext(tk, research)]

\* task_obj.cancel() for a task of active_tasks that is not done.
CancelIfActive(act, id, st) ==
    IF id \in act /\ st \in {"created", "running"} THEN "cancelled" ELSE st

\* The except clause of pipe, entered with the trace msgs, the set act of
\* active tasks, the task states tk, pt, st and the notifications evs made so
\* far: cancel what is not done, emit the failed status (the emitter is
\* awaited unguarded), return the trace and the error block.
TopLevelHandler(msgs, act, tk, pt, st, evs) ==
    /\ task' = [i \in DOMAIN tk |-> CancelIfActive(act, AgentId(i), tk[i])]
    /\ planTask' = CancelIfActive(act, PlanId, pt)
    /\ synthTask' = CancelIfActive(act, SynthId, st)
    /\ progress_messages' = msgs
    /\ IF emitter = "broken"
       THEN /\ pc' = "raised"
            /\ events' = evs
            /\ UNCHANGED output
       ELSE /\ pc' = "failed"
            /\ events' = Emitted(evs, Event("status", "failed", ""))
            /\ output' = [kind |-> "error", trace |-> msgs]

\* Lines 713-721: one context per agent name, then the phase loop.
EnterPhases(ags, research, msgs) ==
    /\ agent_contexts' = InitialContexts(ags, user_task, research)
    /\ overall_research_context' = research
    /\ progress_messages' = msgs
    /\ phase' = 1
    /\ pc' = "launch"

\* ------------------------------------------------------- pipe: the steps

\* ------------------------------------------------ gateway: data (pure part)

\* Concurrent callers of call_model_with_cache (agent tasks of one phase, or
\* pipe invocations the host runs on one Pipe object).
NumCallers == 2
\* Calls to call_model_with_cache made in a modelled run.
MaxCalls == 3
\* Distinct message lists the callers use.
MaxMsgs == 3
Callers == 1..NumCallers

\* fallback_model of line 161.
FallbackModel == "gpt-3.5-turbo"

Models == {"gpt-4o", FallbackModel}

\* Temperatures in tenths: 0.7 (the TEMPERATURE valve of line 51).
Temperatures == {7}

Requests == [model : Models, messages : 1..MaxMsgs, temperature : Temperatures]

\* hash(json.dumps(messages, sort_keys=True)): a 64-bit value, so not
\* injective on strings; here the last message list collides with the first.
Hash(msgs) == IF msgs = MaxMsgs THEN 1 ELSE msgs

\* Line 184-186: f"{model}_{hash(...)}_{temperature}"
CacheKey(req) == <<req.model, Hash(req.messages), req.temperature>>

\* A faulty variant: the caching path is taken whatever the valve says.
IgnoresCachingValve(v) == TRUE

\* Line 181: the caching path is taken when the valve is set.
UsesCache(v) == v.ENABLE_CACHING

\* A faulty variant: the lookup never finds the key.
CacheNeverHit(key, c) == FALSE

\* Line 187: cache_key in self.cache
CacheHit(key, c) == key \in DOMAIN c

\* What one completions.create call can do: answer, exceed MODEL_TIMEOUT, or
\* fail with another exception.
BackendOutcomes ==
    {[kind |-> "ok", body |-> t] : t \in {"text A", "text B"}}
    \cup {[kind |-> "timeout", body |-> "TimeoutError"],
          [kind |-> "error", body |-> "APIError"]}

\* What call_model hands back: kind "text" is a str return value, kind
\* "raise" an exception leaving call_model.
Returned(body) == [kind |-> "text", body |-> body]

\* Line 151: response.choices[0].message.content
ContentOf(out) == Returned(<<out.body>>)

\* Line 153: "Error: Request to model {model} timed out after ... seconds."
TimeoutMessage(model) == Returned(<<"timed out", model>>)

\* Line 141: "Error initializing OpenAI client: ..."
ClientErrorMessage == Returned(<<"client init failed">>)

\* Line 175: "Error calling model {model}: {e}\nFallback also failed: {fallback_e}"
BothFailedMessage(model, e, fe) == Returned(<<"Error calling model", model, e, "Fallback also failed", fe>>)

\* A faulty variant: the timeout is handled like any other failure.
TakesFallbackOnAnyFailure(out) == out.kind \in {"error", "timeout"}

\* Lines 152 and 156: which except clause takes the primary call's outcome.
TakesFallback(out) == out.kind = "error"

\* A faulty variant: the retry goes to the model that just failed.
FallbackSameModel(req) == req

\* Lines 166-170: the fallback call's arguments.
FallbackRequest(req) ==
    [model |-> FallbackModel, messages |-> req.messages, temperature |-> req.temperature]

\* Lines 172-175: what call_model returns once the fallback call has ended.
AfterFallback(req, e, out) ==
    IF out.kind = "ok" THEN ContentOf(out)
    ELSE BothFailedMessage(req.model, e, out.body)

\* The text is one of call_model's failure messages of lines 153 and 175.
ErrorPayload(ret) ==
    /\ ret.body # <<>>
    /\ ret.body[1] \in {"timed out", "Error calling model"}

\* A faulty variant: failure messages are not stored.
StoresAnswersOnly(rec, ret) == rec.cached /\ ~ErrorPayload(ret)

\* Lines 189-190: whatever call_model returned is stored, once the call is
\* past line 182.
Stores(rec, ret) == rec.cached

\* A faulty variant: an entry that is present is not overwritten.
KeepFirstEntry(c, key, ret) == IF key \in DOMAIN c THEN c ELSE (key :> ret) @@ c

\* Line 190: self.cache[cache_key] = response
CacheAfter(c, key, ret) == (key :> ret) @@ c

NoRequest == [model |-> "", messages |-> 0, temperature |-> 0]

\* A caller that is not inside call_model_with_cache and has made no call.
\* primary/fallback: how each completions.create call ended; err/ferr: str(e)
\* and str(fallback_e); calls: the arguments of the calls made; cached:
\* whether the call went past line 182; hit: whether line 188 answered it.
IdleCall == [pc |-> "idle", req |-> NoRequest, primary |-> "", err |-> "",
             fallback |-> "", ferr |-> "", calls |-> <<>>,
             ret |-> Returned(<<>>), cached |-> FALSE, hit |-> FALSE]

NoResult == [done |-> FALSE, val |-> <<>>]

\* No function is being applied on its own.
PureIdle == fn = "none" /\ arg = <<>> /\ res = NoResult

\* No inlet call of the companion filter was made.
FilterIdle ==
    /\ filter_valves = [ENABLE_CHAT_META_CACHE |-> TRUE]
    /\ chat_id = "none"
    /\ chats = <<>>
    /\ now = 0
    /\ inlet = [r \in Inlets |-> IdleInlet]
    /\ running = 0
    /\ handled = {}

\* Pipe.__init__ for the gateway: an empty cache, no call made.
GatewayIdle ==
    /\ cache = <<>>
    /\ client = "none"
    /\ call = [c \in Callers |-> IdleCall]
    /\ started = 0
    /\ returned = [r \in Requests |-> {}]
    /\ primaryCalls = [r \in Requests |-> 0]
    /\ overlapped = {}
    /\ lastCaller = 0

\* Entry of Pipe.pipe (lines 636-637): nothing planned, launched or emitted.
PipeEntry ==
    /\ pc = "start"
    /\ agents = <<>>
    /\ sorted_orders = <<>>
    /\ phase = 0
    /\ waitPos = 0
    /\ propPos = 0
    /\ task = <<>>
    /\ taskCtx = <<>>
    /\ planTask = "none"
    /\ synthTask = "none"
    /\ active_tasks = {}
    /\ agent_contexts = <<>>
    /\ all_completed_agent_results = <<>>
    /\ progress_messages = <<>>
    /\ research_queries = 0
    /\ queryPos = 0
    /\ raw_results = <<>>
    /\ all_summarized_research = <<>>
    /\ overall_research_context = <<>>
    /\ relLog = {}
    /\ events = <<>>
    /\ agent_events = <<>>
    /\ synthInputs = <<>>
    /\ output = [kind |-> "none", trace |-> <<>>]

Init ==
    /\ messages \in Bodies
    /\ user_task = NoTask
    /\ valves \in [BROWSING_ENABLED : BOOLEAN, VISUALIZE_AGENTS : BOOLEAN,
                   ENABLE_CACHING : {TRUE}]
    /\ emitter \in {"none", "ok"}
    /\ PipeEntry
    /\ GatewayIdle
    /\ FilterIdle
    /\ PureIdle

\* Lines 639-662 up to the await of define_agents_task.
PipeStart ==
    /\ pc = "start"
    /\ IF UserMessages(messages) = <<>>
       THEN /\ pc' = "noinput"
            /\ output' = [kind |-> "noinput", trace |-> <<>>]
            /\ UNCHANGED <<events, progress_messages, planTask, active_tasks,
                           task, synthTask, user_task>>
       ELSE IF UsesEmitter /\ emitter = "broken"
       THEN /\ user_task' = TaskOf(messages)
            /\ TopLevelHandler(progress_messages, active_tasks, task, planTask,
                               synthTask, events)
            /\ UNCHANGED active_tasks
       ELSE /\ user_task' = TaskOf(messages)
            /\ events' = IF UsesEmitter
                         THEN Emitted(events, Event("status", "init", ""))
                         ELSE events
            /\ progress_messages' = Append(progress_messages, Line("analyzing", ""))
            /\ planTask' = "running"
            /\ active_tasks' = active_tasks \cup {PlanId}
            /\ pc' = "planning"
            /\ UNCHANGED <<output, task, synthTask>>
    /\ UNCHANGED <<messages, valves, emitter, agents, sorted_orders, phase, waitPos,
                   propPos, taskCtx, agent_events, agent_contexts,
                   all_completed_agent_results, research_queries, queryPos,
                   raw_results, all_summarized_research,
                   overall_research_context, relLog, synthInputs, gatewayVars, pureVars, filterVars>>

\* The "Phase k: [names]" lines of lines 674-677: a['name'] raises KeyError at
\* the first phase that holds an agent without a name.
RECURSIVE PhaseListLines(_, _, _)
PhaseListLines(ags, orders, k) ==
    IF k > Len(orders) THEN [lines |-> <<>>, raised |-> FALSE]
    ELSE IF \E i \in PhaseAgents(ags, orders[k]) : ags[i].name = NoName
    THEN [lines |-> <<>>, raised |-> TRUE]
    ELSE LET rest == PhaseListLines(ags, orders, k + 1)
         IN  [lines |-> <<Line("phase_list", "")>> \o rest.lines,
              raised |-> rest.raised]

\* A faulty variant: research runs whatever the valve says.
BrowsingAlways == TRUE

\* Line 684: if self.valves.BROWSING_ENABLED
BrowsingEnabled == valves.BROWSING_ENABLED

\* Lines 661-711: define_agents_task is done; sort, group, report, then the
\* research planner when browsing is enabled, else the contexts. The request
\* is not read from here on and the model drops it.
PlanningDone ==
    /\ pc = "planning"
    /\ \E resp \in PlannerResponses :
       \E ags \in {SortByOrder(define_agents(resp))} :
       \E orders \in {SortedOrders(ags)} :
       \E listed \in {PhaseListLines(ags, orders, 1)} :
        LET msgs == (progress_messages \o <<Line("team", "")>>) \o listed.lines
            act == active_tasks \ {PlanId}
            tk == [i \in 1..Len(ags) |-> "none"]
        IN  /\ active_tasks' = act
            /\ agents' = ags
            /\ sorted_orders' = orders
            /\ taskCtx' = [i \in 1..Len(ags) |-> <<>>]
            /\ agent_events' = [i \in 1..Len(ags) |-> <<>>]
            /\ IF listed.raised \/ (UsesEmitter /\ emitter = "broken")
               THEN /\ TopLevelHandler(msgs, act, tk, "done", synthTask, events)
                    /\ UNCHANGED <<agent_contexts, overall_research_context, phase>>
               ELSE /\ task' = tk
                    /\ planTask' = "done"
                    /\ events' = IF UsesEmitter
                                 THEN Emitted(events, Event("agents_defined", "", ""))
                                 ELSE events
                    /\ UNCHANGED <<output, synthTask>>
                    /\ IF BrowsingEnabled
                       THEN /\ progress_messages' = Append(msgs, Line("research_init", ""))
                            /\ pc' = "research_plan"
                            /\ UNCHANGED <<agent_contexts, overall_research_context,
                                           phase>>
                       ELSE EnterPhases(ags, <<>>, msgs)
    /\ messages' = <<>>
    /\ UNCHANGED user_task
    /\ UNCHANGED <<valves, emitter, waitPos, propPos,
                   all_completed_agent_results, research_queries, queryPos,
                   raw_results, all_summarized_research, relLog, synthInputs,
                   gatewayVars, pureVars, filterVars>>

\* What browse_for_information can return: fetched sources, with or without
\* inline markers, a "No ... found" placeholder, or a message.
BrowseResults == {browse_for_information(out) : out \in BrowseOutcomes}

\* Variables the research steps leave alone.
researchFrame == <<messages, user_task, valves, emitter, agents, sorted_orders, waitPos, propPos,
                   task, taskCtx, planTask, synthTask, active_tasks,
                   all_completed_agent_results, relLog, events, agent_events,
                   synthInputs, output,
                   gatewayVars, pureVars, filterVars>>

\* Lines 707-721, after the last query.
ResearchFinished(acc, msgs) ==
    /\ all_summarized_research' = acc
    /\ IF acc # <<>>
       THEN EnterPhases(agents, acc, Append(msgs, Line("research_complete", "")))
       ELSE EnterPhases(agents, <<>>, msgs)

\* The for loop of line 692 moving to its next query, or leaving the loop.
NextQuery(acc, msgs) ==
    IF queryPos < research_queries
    THEN /\ queryPos' = queryPos + 1
         /\ pc' = "browse"
         /\ all_summarized_research' = acc
         /\ progress_messages' = msgs
         /\ UNCHANGED <<agent_contexts, overall_research_context, phase>>
    ELSE /\ ResearchFinished(acc, msgs)
         /\ UNCHANGED queryPos

\* Line 686: _get_research_queries returned, with n queries.
ResearchQueriesDone ==
    /\ pc = "research_plan"
    /\ \E resp \in QueryResponses(MaxQueries) :
       LET n == Len(get_research_queries(resp).list)
       IN
        /\ research_queries' = n
        /\ IF n = 0
           THEN /\ EnterPhases(agents, <<>>, progress_messages)
                /\ UNCHANGED <<queryPos, all_summarized_research>>
           ELSE /\ progress_messages' = Append(progress_messages, Line("queries", ""))
                /\ queryPos' = 1
                /\ pc' = "browse"
                /\ UNCHANGED <<agent_contexts, overall_research_context, phase,
                               all_summarized_research>>
    /\ UNCHANGED raw_results
    /\ UNCHANGED researchFrame

\* Lines 693-696: browse_for_information returned for the current query.
BrowseDone ==
    /\ pc = "browse"
    /\ \E raw \in BrowseResults :
        /\ raw_results' = IF Summarizable(raw) THEN raw ELSE <<>>
        /\ IF Summarizable(raw)
           THEN /\ pc' = "summarize"
                /\ UNCHANGED <<queryPos, all_summarized_research, progress_messages,
                               agent_contexts, overall_research_context, phase>>
           ELSE NextQuery(all_summarized_research, progress_messages)
    /\ UNCHANGED research_queries
    /\ UNCHANGED researchFrame

\* Lines 697-705: _summarize_research_results returned.
SummarizeDone ==
    /\ pc = "summarize"
    /\ NextQuery(Append(all_summarized_research, queryPos),
                 Append(progress_messages, Line("summarized", "")))
    /\ raw_results' = <<>>
    /\ UNCHANGED research_queries
    /\ UNCHANGED researchFrame

\* Variables the phase steps leave alone.
phaseFrame == <<messages, user_task, valves, emitter, agents, sorted_orders, planTask, synthTask,
                research_queries, queryPos, raw_results, all_summarized_research,
                overall_research_context, synthInputs, output, gatewayVars, pureVars, filterVars>>

\* Lines 724-742: the phase message, then one run_agent task per agent of the
\* phase, each created with the agent's context as it stands.
LaunchPhase ==
    /\ pc = "launch"
    /\ phase <= Len(sorted_orders)
    /\ LET ph == PhaseAgents(agents, sorted_orders[phase])
       IN  /\ task' = [i \in DOMAIN task |-> IF i \in ph THEN "created" ELSE task[i]]
           /\ taskCtx' = [i \in DOMAIN taskCtx |->
                            IF i \in ph THEN agent_contexts[agents[i].name]
                            ELSE taskCtx[i]]
           /\ active_tasks' = active_tasks \cup {AgentId(i) : i \in ph}
    /\ progress_messages' = Append(progress_messages, Line("phase", ""))
    /\ waitPos' = 1
    /\ pc' = "await"
    /\ UNCHANGED <<phase, propPos, agent_contexts, all_completed_agent_results,
                   relLog, events, agent_events>>
    /\ UNCHANGED phaseFrame

\* Variables a run_agent task leaves alone.
agentFrame == <<messages, user_task, valves, emitter, pc, agents, sorted_orders, phase, waitPos,
                propPos, taskCtx, planTask, synthTask, active_tasks, agent_contexts,
                all_completed_agent_results, progress_messages, research_queries,
                queryPos, raw_results, all_summarized_research,
                overall_research_context, relLog, events, synthInputs, output,
                gatewayVars, pureVars, filterVars>>

\* run_agent lines 486-538: read the agent's fields (role.lower(), join of the
\* tasks: a field of another type raises), emit "Thinking..." when the emitter
\* is used, then wait for the model.
AgentStart(i) ==
    /\ task[i] = "created"
    /\ \/ /\ ~(UsesEmitter /\ emitter = "broken")
          /\ task' = [task EXCEPT ![i] = "running"]
          /\ agent_events' =
                IF UsesEmitter
                THEN [agent_events EXCEPT ![i] =
                        Emitted(@, Event("agent_status", "thinking", agents[i].name))]
                ELSE agent_events
       \/ /\ task' = [task EXCEPT ![i] = "exc"]
          /\ UNCHANGED agent_events
    /\ UNCHANGED agentFrame

\* run_agent lines 536-555: the model answered. When the emitter is used the
\* preview len(result) raises for a null content, and an emit may raise.
AgentFinish(i) ==
    /\ task[i] = "running"
    /\ \/ /\ ~(UsesEmitter /\ emitter = "broken")
          /\ task' = [task EXCEPT ![i] = "ok"]
          /\ agent_events' =
                IF UsesEmitter
                THEN [agent_events EXCEPT ![i] =
                        Emitted(Emitted(@,
                            Event("agent_result", "preview", agents[i].name)),
                            Event("agent_status", "completed", agents[i].name))]
                ELSE agent_events
       \/ /\ UsesEmitter
          /\ task' = [task EXCEPT ![i] = "exc"]
          /\ UNCHANGED agent_events
    /\ UNCHANGED agentFrame

\* The agent whose task the phase loop is awaiting.
CurrentAgent == PhaseSeq(agents, sorted_orders[phase])[waitPos]

\* Lines 755-765 from future_agent index j on, for the result of agent i, up
\* to the next is_relevant call (at = its index) or the end of the list
\* (at = Len(ags) + 1). The Coordinator branch is the elif: it is reached only
\* when the order test fails.
RECURSIVE PropagateFrom(_, _, _, _)
PropagateFrom(ctxs, ags, i, j) ==
    IF j > Len(ags) THEN [ctx |-> ctxs, at |-> j]
    ELSE IF ags[j].name = ags[i].name THEN PropagateFrom(ctxs, ags, i, j + 1)
    ELSE IF ags[j].order > ags[i].order THEN [ctx |-> ctxs, at |-> j]
    ELSE IF ags[j].name = "Coordinator"
    THEN PropagateFrom([ctxs EXCEPT !["Coordinator"] = Append(@, OutputEntry(ags, i))],
                       ags, i, j + 1)
    ELSE PropagateFrom(ctxs, ags, i, j + 1)

\* The for loop of line 745 moving to its next task, or the phase loop to its
\* next phase.
NextAwait ==
    IF waitPos < Len(PhaseSeq(agents, sorted_orders[phase]))
    THEN /\ waitPos' = waitPos + 1
         /\ pc' = "await"
         /\ UNCHANGED phase
    ELSE /\ phase' = phase + 1
         /\ pc' = "launch"
         /\ UNCHANGED waitPos

\* The propagation loop resumed at index j with contexts ctxs.
ContinuePropagation(ctxs, j) ==
    LET r == PropagateFrom(ctxs, agents, CurrentAgent, j)
    IN  /\ agent_contexts' = r.ctx
        /\ IF r.at > Len(agents)
           THEN /\ NextAwait
                /\ UNCHANGED propPos
           ELSE /\ pc' = "relevance"
                /\ propPos' = r.at
                /\ UNCHANGED <<phase, waitPos>>

\* Lines 746-768: "result = await task_obj" resumes.
AwaitAgent ==
    /\ pc = "await"
    /\ LET i == CurrentAgent
       IN  \/ /\ task[i] = "ok"
              /\ active_tasks' = active_tasks \ {AgentId(i)}
              /\ all_completed_agent_results' =
                    (agents[i].name :> i) @@ all_completed_agent_results
              /\ progress_messages' =
                    Append(progress_messages, Line("completed", agents[i].name))
              /\ ContinuePropagation(agent_contexts, 1)
           \/ /\ task[i] = "exc"
              /\ progress_messages' =
                    Append(progress_messages, Line("failed", agents[i].name))
              /\ NextAwait
              /\ UNCHANGED <<active_tasks, all_completed_agent_results,
                             agent_contexts, propPos>>
    /\ UNCHANGED <<task, taskCtx, relLog, events, agent_events>>
    /\ UNCHANGED phaseFrame

\* Answers of is_relevant: True, False, or an exception (response.upper() of
\* a null content).
RelevanceAnswers == {"YES", "NO", "raise"}

\* Lines 758-768: "await self.is_relevant(result, future_agent, task)" resumes.
RelevanceDone ==
    /\ pc = "relevance"
    /\ \E ans \in RelevanceAnswers :
        /\ relLog' = relLog \cup {[from |-> CurrentAgent, to |-> propPos, ans |-> ans]}
        /\ IF ans = "raise"
           THEN /\ progress_messages' =
                      Append(progress_messages, Line("failed", agents[CurrentAgent].name))
                /\ NextAwait
                /\ UNCHANGED <<agent_contexts, propPos>>
           ELSE /\ ContinuePropagation(
                      IF ans = "YES"
                      THEN [agent_contexts EXCEPT ![agents[propPos].name] =
                                Append(@, OutputEntry(agents, CurrentAgent))]
                      ELSE agent_contexts,
                      propPos + 1)
                /\ UNCHANGED progress_messages
    /\ UNCHANGED <<task, taskCtx, active_tasks, all_completed_agent_results, events,
                   agent_events>>
    /\ UNCHANGED phaseFrame

\* Lines 770-775: every phase is over; create synthesis_task.
StartSynthesis ==
    /\ pc = "launch"
    /\ phase > Len(sorted_orders)
    /\ progress_messages' = Append(progress_messages, Line("synthesizing", ""))
    /\ synthInputs' = Append(synthInputs, all_completed_agent_results)
    /\ synthTask' = "running"
    /\ active_tasks' = active_tasks \cup {SynthId}
    /\ pc' = "synth"
    /\ UNCHANGED <<messages, user_task, valves, emitter, agents, sorted_orders, phase, waitPos,
                   propPos, task, taskCtx, agent_events, planTask, agent_contexts,
                   all_completed_agent_results, research_queries, queryPos,
                   raw_results, all_summarized_research, overall_research_context,
                   relLog, events, output, gatewayVars, pureVars, filterVars>>

\* message.content of the Synthesizer's answer (line 151): a str, or None.
FinalResponses == {"text", "null"}

\* synthesize_results (lines 586-608) finished and lines 776-801 run: the
\* task raises when its emit raises; the concatenation of line 780 raises
\* TypeError for a None final_result; the last emit of pipe is made whenever
\* an emitter was supplied, inside the try block.
SynthesisDone ==
    /\ pc = "synth"
    /\ IF UsesEmitter /\ emitter = "broken"
       THEN /\ TopLevelHandler(progress_messages, active_tasks, task, planTask, "exc",
                                events)
            /\ UNCHANGED active_tasks
       ELSE LET act == active_tasks \ {SynthId}
                msgs == Append(progress_messages, Line("synthesis_complete", ""))
                evs == IF UsesEmitter
                       THEN Emitted(Emitted(events, Event("status", "synthesizing", "")),
                                    Event("status", "synthesis_complete", ""))
                       ELSE events
            IN  /\ active_tasks' = act
                /\ \E final \in FinalResponses :
                   IF final = "null" \/ emitter = "broken"
                   THEN TopLevelHandler(msgs, act, task, planTask, "done", evs)
                   ELSE /\ task' = [i \in DOMAIN task |->
                                      CancelIfActive(act, AgentId(i), task[i])]
                        /\ planTask' = CancelIfActive(act, PlanId, planTask)
                        /\ synthTask' = "done"
                        /\ progress_messages' = msgs
                        /\ events' = Emitted(evs, Event("status", "finished", ""))
                        /\ output' = [kind |-> "final", trace |-> msgs]
                        /\ pc' = "done"
    /\ UNCHANGED <<messages, user_task, valves, emitter, agents, sorted_orders, phase, waitPos,
                   propPos, taskCtx, agent_events, agent_contexts,
                   all_completed_agent_results, research_queries, queryPos,
                   raw_results, all_summarized_research,
                   overall_research_context, relLog, synthInputs, gatewayVars, pureVars, filterVars>>

\* The places where pipe is suspended in an await.
AwaitPoints == {"planning", "research_plan", "browse", "summarize", "await",
                "relevance", "synth"}

Terminal == {"done", "failed", "noinput", "raised", "cancelled"}

\* The host cancels the pipe coroutine while it is suspended: CancelledError
\* is raised at the await, is not an Exception, and passes the except clauses
\* of lines 766 and 803. Cancelling an awaiting coroutine cancels the task it
\* awaits; its other tasks are not touched.
Cancel ==
    /\ pc \in AwaitPoints
    /\ pc' = "cancelled"
    /\ planTask' = IF pc = "planning" THEN "cancelled" ELSE planTask
    /\ synthTask' = IF pc = "synth" THEN "cancelled" ELSE synthTask
    /\ task' = IF pc = "await" /\ task[CurrentAgent] \in {"created", "running"}
               THEN [task EXCEPT ![CurrentAgent] = "cancelled"]
               ELSE task
    /\ UNCHANGED <<messages, user_task, valves, emitter, agents, sorted_orders, phase, waitPos,
                   propPos, taskCtx, agent_events, active_tasks, agent_contexts,
                   all_completed_agent_results, progress_messages, research_queries,
                   queryPos, raw_results, all_summarized_research,
                   overall_research_context, relLog, events, synthInputs, output,
                   gatewayVars, pureVars, filterVars>>

\* The event emitter starts to raise (the host's connection is gone).
EmitterBreaks ==
    /\ emitter = "ok"
    /\ pc \notin Terminal
    /\ emitter' = "broken"
    /\ UNCHANGED <<messages, user_task, valves, pc, agents, sorted_orders, phase, waitPos,
                   propPos, task, taskCtx, agent_events, planTask, synthTask,
                   active_tasks, agent_contexts, all_completed_agent_results,
                   progress_messages,
                   research_queries, queryPos, raw_results, all_summarized_research,
                   overall_research_context, relLog, events, synthInputs, output,
                   gatewayVars, pureVars, filterVars>>

Next ==
    \/ PipeStart
    \/ PlanningDone
    \/ ResearchQueriesDone
    \/ BrowseDone
    \/ SummarizeDone
    \/ LaunchPhase
    \/ \E i \in DOMAIN task : AgentStart(i)
    \/ \E i \in DOMAIN task : AgentFinish(i)
    \/ AwaitAgent
    \/ RelevanceDone
    \/ StartSynthesis
    \/ SynthesisDone
    \/ Cancel
    \/ EmitterBreaks

Spec == Init /\ [][Next]_vars

\* The steps pipe and its tasks take themselves, each once the model, search
\* or fetch call it waits for has ended.
PipeStep ==
    \/ PipeStart
    \/ PlanningDone
    \/ ResearchQueriesDone
    \/ BrowseDone
    \/ SummarizeDone
    \/ LaunchPhase
    \/ \E i \in DOMAIN task : AgentStart(i)
    \/ \E i \in DOMAIN task : AgentFinish(i)
    \/ AwaitAgent
    \/ RelevanceDone
    \/ StartSynthesis
    \/ SynthesisDone

\* An invocation the host does not cancel.
LiveNext ==
    \/ PipeStep
    \/ EmitterBreaks

\* The event loop runs every coroutine that is ready, and every external
\* call ends: by its answer, by an exception, or by the asyncio.timeout of
\* lines 143 and 163 and the timeouts of the search and fetch requests. So a
\* step of pipe that stays possible is taken.
SpecLive == Init /\ [][LiveNext]_vars /\ WF_vars(PipeStep)

\* ---------------------------------------------------- gateway: the steps

GatewayInit ==
    /\ messages = <<>>
    /\ user_task = NoTask
    /\ valves \in [BROWSING_ENABLED : {FALSE}, VISUALIZE_AGENTS : {TRUE},
                   ENABLE_CACHING : BOOLEAN]
    /\ emitter = "none"
    /\ PipeEntry
    /\ GatewayIdle
    /\ FilterIdle
    /\ PureIdle

\* Calls suspended inside call_model for cache key k.
InFlight(k) == {c \in Callers : call[c].pc \in {"primary", "fallback"}
                                /\ CacheKey(call[c].req) = k}

\* call_model returned ret to call_model_with_cache, which stores it when the
\* call went past line 182 (line 190) and returns it (lines 182, 191).
GatewayReturn(c, rec, ret) ==
    /\ call' = [call EXCEPT ![c] = [rec EXCEPT !.pc = "done", !.ret = ret]]
    /\ cache' = IF Stores(rec, ret) /\ ret.kind = "text"
                THEN CacheAfter(cache, CacheKey(rec.req), ret)
                ELSE cache
    /\ returned' = IF ret.kind = "text"
                   THEN [returned EXCEPT ![rec.req] = @ \cup {ret}]
                   ELSE returned

\* call_model_with_cache up to its first suspension: the ENABLE_CACHING test,
\* the cache lookup, then call_model's client check and the primary call.
\* Callers are interchangeable coroutines: the one that makes its first call
\* is the lowest-numbered one that has made none.
GatewayCall(c) ==
    /\ call[c].pc \in {"idle", "done"}
    /\ \A d \in Callers : d < c => call[d].pc # "idle"
    /\ started < MaxCalls
    /\ started' = started + 1
    /\ lastCaller' = c
    /\ \E req \in Requests :
        LET key == CacheKey(req)
            rec == [IdleCall EXCEPT !.req = req, !.cached = UsesCache(valves)]
        IN  IF rec.cached /\ CacheHit(key, cache)
            THEN /\ call' = [call EXCEPT ![c] =
                                [rec EXCEPT !.pc = "done", !.ret = cache[key],
                                            !.hit = TRUE]]
                 /\ returned' = [returned EXCEPT ![req] = @ \cup {cache[key]}]
                 /\ UNCHANGED <<cache, client, primaryCalls, overlapped>>
            ELSE \/ /\ client = "none"
                    /\ GatewayReturn(c, rec, ClientErrorMessage)
                    /\ UNCHANGED <<client, primaryCalls, overlapped>>
                 \/ /\ client' = "ready"
                    /\ call' = [call EXCEPT ![c] =
                                  [rec EXCEPT !.pc = "primary", !.calls = <<req>>]]
                    /\ primaryCalls' = [primaryCalls EXCEPT ![req] = @ + 1]
                    /\ overlapped' = IF InFlight(key) # {}
                                     THEN overlapped \cup {key}
                                     ELSE overlapped
                    /\ UNCHANGED <<cache, returned>>
    /\ UNCHANGED <<pipeVars, pureVars, filterVars>>

\* Lines 143-175: the primary completions.create call ended.
PrimaryReturns(c) ==
    /\ call[c].pc = "primary"
    /\ \E out \in BackendOutcomes :
        LET rec == [call[c] EXCEPT !.primary = out.kind]
        IN  IF out.kind = "ok"
            THEN GatewayReturn(c, rec, ContentOf(out))
            ELSE IF TakesFallback(out)
            THEN /\ call' = [call EXCEPT ![c] =
                               [rec EXCEPT !.pc = "fallback", !.err = out.body,
                                           !.calls = Append(@, FallbackRequest(rec.req))]]
                 /\ UNCHANGED <<cache, returned>>
            ELSE GatewayReturn(c, rec, TimeoutMessage(rec.req.model))
    /\ UNCHANGED <<client, started, lastCaller, primaryCalls, overlapped, pipeVars, pureVars, filterVars>>

\* Lines 163-175: the fallback completions.create call ended.
FallbackReturns(c) ==
    /\ call[c].pc = "fallback"
    /\ \E out \in BackendOutcomes :
        GatewayReturn(c, [call[c] EXCEPT !.fallback = out.kind,
                                         !.ferr = IF out.kind = "ok" THEN "" ELSE out.body],
                      AfterFallback(call[c].req, call[c].err, out))
    /\ UNCHANGED <<client, started, lastCaller, primaryCalls, overlapped, pipeVars, pureVars, filterVars>>

\* The host clears the ENABLE_CACHING valve (line 47) of the running pipe;
\* calls already past line 181 are not affected.
DisableCaching ==
    /\ valves.ENABLE_CACHING
    /\ valves' = [valves EXCEPT !.ENABLE_CACHING = FALSE]
    /\ UNCHANGED <<messages, user_task, emitter, pc, agents, sorted_orders, phase,
                   waitPos, propPos, task, taskCtx, agent_events, planTask,
                   synthTask, active_tasks, agent_contexts,
                   all_completed_agent_results, progress_messages,
                   research_queries, queryPos, raw_results,
                   all_summarized_research, overall_research_context, relLog,
                   events, synthInputs, output, gatewayVars, pureVars, filterVars>>

GatewayNext ==
    \/ DisableCaching
    \/ \E c \in Callers : GatewayCall(c)
    \/ \E c \in Callers : PrimaryReturns(c)
    \/ \E c \in Callers : FallbackReturns(c)

SpecGateway == GatewayInit /\ [][GatewayNext]_vars

\* ------------------------------------------ functions applied on their own

\* One function and one argument for it; the pipe and the gateway are idle.
PureInit ==
    /\ messages = <<>>
    /\ user_task = NoTask
    /\ valves = [BROWSING_ENABLED |-> TRUE, VISUALIZE_AGENTS |-> TRUE,
                 ENABLE_CACHING |-> TRUE]
    /\ emitter = "none"
    /\ PipeEntry
    /\ GatewayIdle
    /\ FilterIdle
    /\ res = NoResult
    /\ \/ fn = "_get_research_queries" /\ arg \in QueryResponses(MaxListed)
       \/ fn = "query_rag_for_user" /\ arg \in RankedResults
       \/ fn = "format_sources_for_llm" /\ arg \in RAGQueryResponses
       \/ fn = "research_step" /\ arg \in BrowseOutcomes
       \/ fn = "define_agents" /\ arg \in WidePlannerResponses
       \/ fn = "run_agent" /\ arg \in RunAgentCalls
       \/ fn = "query_rag_for_user: rank" /\ arg \in RagCalls

\* Lines 326-350 of _get_research_queries for the answer arg.
ApplyGetResearchQueries ==
    /\ fn = "_get_research_queries"
    /\ ~res.done
    /\ res' = [done |-> TRUE, val |-> get_research_queries(arg)]
    /\ UNCHANGED <<fn, arg, pipeVars, gatewayVars, filterVars>>

\* Lines 220-226 of query_rag_for_user (and 534-540 of
\* query_rag_specific_collections) for the ranked results arg.
ApplyAssignCitationIds ==
    /\ fn = "query_rag_for_user"
    /\ ~res.done
    /\ res' = [done |-> TRUE, val |-> AssignCitationIds(arg)]
    /\ UNCHANGED <<fn, arg, pipeVars, gatewayVars, filterVars>>

\* Lines 405-419 of format_sources_for_llm for the response arg and the
\* default template.
ApplyFormatSources ==
    /\ fn = "format_sources_for_llm"
    /\ ~res.done
    /\ res' = [done |-> TRUE, val |-> format_sources_for_llm(arg)]
    /\ UNCHANGED <<fn, arg, pipeVars, gatewayVars, filterVars>>

\* Lines 693-705 of pipe for one query and the outcome arg.
ApplyResearchStep ==
    /\ fn = "research_step"
    /\ ~res.done
    /\ res' = [done |-> TRUE, val |-> research_step(arg)]
    /\ UNCHANGED <<fn, arg, pipeVars, gatewayVars, filterVars>>

\* define_agents (lines 418-479) for the planner's answer arg, and the
\* schedule lines 665-669 of pipe make of the team.
ApplyDefineAgents ==
    /\ fn = "define_agents"
    /\ ~res.done
    /\ res' = [done |-> TRUE,
               val |-> [agents |-> define_agents(arg),
                        sorted_orders |->
                            SortedOrders(SortByOrder(define_agents(arg)))]]
    /\ UNCHANGED <<fn, arg, pipeVars, gatewayVars, filterVars>>

\* run_agent lines 486-534 for the call arg: the model is chosen, "Thinking..."
\* is emitted and the Gateway is called.
ApplyRunAgentCall ==
    /\ fn = "run_agent"
    /\ ~res.done
    /\ DOMAIN res.val = {}
    /\ res' = [done |-> FALSE,
               val |-> [model |-> model_to_use(arg.agent),
                        emitted |-> IF Visualizes(arg)
                                    THEN << [type |-> "agent_status",
                                             status |-> "Thinking...",
                                             result |-> <<>>] >>
                                    ELSE <<>>,
                        calls |-> 1,
                        returned |-> <<>>]]
    /\ UNCHANGED <<fn, arg, pipeVars, gatewayVars, filterVars>>

\* run_agent lines 536-555: the Gateway answered arg.result; the preview and
\* "Completed." are emitted and the result is returned.
ApplyRunAgentReturn ==
    /\ fn = "run_agent"
    /\ ~res.done
    /\ DOMAIN res.val # {}
    /\ res' = [done |-> TRUE,
               val |-> [res.val EXCEPT
                          !.emitted =
                              IF Visualizes(arg)
                              THEN @ \o << [type |-> "agent_result",
                                            status |-> "",
                                            result |-> Preview(arg.result)],
                                           [type |-> "agent_status",
                                            status |-> "Completed.",
                                            result |-> <<>>] >>
                              ELSE @,
                          !.returned = <<arg.result>>]]
    /\ UNCHANGED <<fn, arg, pipeVars, gatewayVars, filterVars>>

\* Lines 163-245 of query_rag_for_user for the call arg.
ApplyQueryRag ==
    /\ fn = "query_rag_for_user: rank"
    /\ ~res.done
    /\ res' = [done |-> TRUE, val |-> query_rag_for_user(arg)]
    /\ UNCHANGED <<fn, arg, pipeVars, gatewayVars, filterVars>>

PureNext ==
    \/ ApplyGetResearchQueries
    \/ ApplyAssignCitationIds
    \/ ApplyFormatSources
    \/ ApplyResearchStep
    \/ ApplyDefineAgents
    \/ ApplyRunAgentCall
    \/ ApplyRunAgentReturn
    \/ ApplyQueryRag

SpecPure == PureInit /\ [][PureNext]_vars

\* ------------------------------------------------- companion filter: steps

\* Lines 105 and 152, with the Chats model imported (lines 23-26).
ChatMetaCaching == chat_id # "none" /\ filter_valves.ENABLE_CHAT_META_CACHE

\* The file id the Chats table holds for hash h now with an expiry more than
\* a day ahead, if any.
StoredNow(h) ==
    IF chat_id \in DOMAIN chats /\ Reusable(chats[chat_id], h, now)
    THEN {chats[chat_id][h].openai_file_id}
    ELSE {}

\* The file ids _upload_file has returned so far number the next one.
NextFileId == Cardinality({t \in handled : t.kind = "upload"}) + 1

\* What is recorded of a file once inlet is done with it: the fresh id the
\* Chats table held for it when inlet decided on it, what inlet did, and the
\* head of the last message afterwards.
Handled(r, rec, stored, kind, fid, saved, msgs) ==
    [req |-> r, hash |-> rec.files[rec.idx].hash,
     stored |-> stored, kind |-> kind, file_id |-> fid,
     saved |-> saved,
     role |-> msgs[Len(msgs)].role, block |-> msgs[Len(msgs)].content[1]]

\* The pipe, the gateway and the pure functions are idle; no inlet call made.
FilterInit ==
    /\ messages = <<>>
    /\ user_task = NoTask
    /\ valves = [BROWSING_ENABLED |-> TRUE, VISUALIZE_AGENTS |-> TRUE,
                 ENABLE_CACHING |-> TRUE]
    /\ emitter = "none"
    /\ PipeEntry
    /\ GatewayIdle
    /\ PureIdle
    /\ filter_valves \in [ENABLE_CHAT_META_CACHE : BOOLEAN]
    /\ chat_id \in {"none", "c1"}
    /\ chats \in {<<>>, "c1" :> <<>>}
    /\ now = 0
    /\ inlet = [r \in Inlets |-> IdleInlet]
    /\ running = 0
    /\ handled = {}

\* Lines 77-109 of inlet: the two early returns, else the file cache of the
\* chat is loaded once and the loop over the spreadsheet files begins.
\* Nothing on these lines suspends the call.
InletCall(r, files, body) ==
    /\ running = 0
    /\ inlet[r].pc = "idle"
    /\ IF spreadsheet_files(files) = <<>>
       THEN /\ inlet' = [inlet EXCEPT ![r].pc = "returned", ![r].body = body]
            /\ UNCHANGED running
       ELSE /\ inlet' = [inlet EXCEPT ![r] =
                   [pc |-> "loop", files |-> spreadsheet_files(files), idx |-> 1,
                    chat_file_cache |->
                        IF ChatMetaCaching
                        THEN get_chat_file_cache(chats, chat_id)
                        ELSE <<>>,
                    body |-> body, stored |-> {}]]
            /\ running' = r
    /\ UNCHANGED <<filter_valves, chat_id, chats, now, handled,
                   pipeVars, gatewayVars, pureVars>>

\* Lines 111-135: the next file of the loop.  An entry of the loaded cache
\* that can be reused is injected (lines 117-131); else the call suspends in
\* _upload_file.  After the last file inlet returns the body (line 171).
InletLoop(r) ==
    /\ running = r
    /\ inlet[r].pc = "loop"
    /\ \E rec \in {inlet[r]} :
         IF rec.idx > Len(rec.files)
         THEN /\ inlet' = [inlet EXCEPT ![r].pc = "returned"]
              /\ running' = 0
              /\ UNCHANGED handled
         ELSE \E h \in {rec.files[rec.idx].hash} :
                IF Reusable(rec.chat_file_cache, h, now)
                THEN \E msgs \in {InsertFile(rec.body,
                                     rec.chat_file_cache[h].openai_file_id)} :
                       /\ inlet' = [inlet EXCEPT ![r].body = msgs,
                                                 ![r].idx = rec.idx + 1]
                       /\ handled' = handled \cup
                              {Handled(r, rec, StoredNow(h), "reuse",
                                       rec.chat_file_cache[h].openai_file_id,
                                       FALSE, msgs)}
                       /\ UNCHANGED running
                ELSE /\ inlet' = [inlet EXCEPT ![r].pc = "upload",
                                               ![r].stored = StoredNow(h)]
                     /\ running' = 0
                     /\ UNCHANGED handled
    /\ UNCHANGED <<filter_valves, chat_id, chats, now,
                   pipeVars, gatewayVars, pureVars>>

\* Lines 135-169: _upload_file returned a new file id with expiry outcome o.
\* The entry is saved to the chat meta when caching is on (lines 152-159);
\* _save_to_chat_meta saves nothing when the chat is not found (lines
\* 200-202) or the update raises (lines 222-223).  The id is injected and the
\* loop goes on without suspending.
UploadReturns(r, o, update_ok) ==
    /\ running = 0
    /\ inlet[r].pc = "upload"
    /\ \E rec \in {inlet[r]}, fid \in {NextFileId} :
         \E h \in {rec.files[rec.idx].hash}, msgs \in {InsertFile(rec.body, fid)} :
            /\ chats' = IF ChatMetaCaching /\ update_ok
                        THEN save_to_chat_meta(chats, chat_id, h, fid,
                                               expires_at(o, now))
                        ELSE chats
            /\ inlet' = [inlet EXCEPT ![r].pc = "loop", ![r].body = msgs,
                                      ![r].idx = rec.idx + 1]
            /\ handled' = handled \cup
                   {Handled(r, rec, rec.stored, "upload", fid,
                            chats' # chats, msgs)}
    /\ running' = r
    /\ UNCHANGED <<filter_valves, chat_id, now, pipeVars, gatewayVars, pureVars>>

\* Lines 263, 281, 300 and 308: the upload answers with an error status,
\* which raise_for_status raises out of inlet.
UploadRaises(r) ==
    /\ running = 0
    /\ inlet[r].pc = "upload"
    /\ inlet' = [inlet EXCEPT ![r].pc = "raised"]
    /\ UNCHANGED <<filter_valves, chat_id, chats, now, running, handled,
                   pipeVars, gatewayVars, pureVars>>

\* Time passes.
Tick ==
    /\ now < MaxClock
    /\ now' = now + 1
    /\ UNCHANGED <<filter_valves, chat_id, chats, inlet, running, handled,
                   pipeVars, gatewayVars, pureVars>>

FilterNext ==
    \/ \E r \in Inlets, files \in FileLists, body \in InletBodies :
          InletCall(r, files, body)
    \/ \E r \in Inlets : InletLoop(r)
    \/ \E r \in Inlets, o \in ExpiryOutcomes, update_ok \in BOOLEAN :
          UploadReturns(r, o, update_ok)
    \/ \E r \in Inlets : UploadRaises(r)
    \/ Tick

SpecFilter == FilterInit /\ [][FilterNext]_vars

\* ------------------------------------------------------- claims on pipe

Range(f) == {f[x] : x \in DOMAIN f}

Launched(i) == task[i] # "none"

Completed(i) == task[i] = "ok"

Raised(i) == task[i] = "exc"

FailureLines(name) ==
    {k \in DOMAIN progress_messages : progress_messages[k] = Line("failed", name)}

\* The agent's task is over and the phase loop has taken note of it: its
\* result is in the result mapping, or its failure is in the progress trace.
TerminalAgent(j) ==
    \/ Completed(j) /\ agents[j].name \in DOMAIN all_completed_agent_results
    \/ Raised(j) /\ FailureLines(agents[j].name) # {}

\* C1: no agent with order k has its run_agent task created before every
\* agent with a strictly lower order has finished, with a recorded result or
\* with a caught and recorded failure.
PhaseOrdering ==
    \A i \in DOMAIN task : \A j \in DOMAIN task :
        (Launched(i) /\ agents[j].order < agents[i].order) => TerminalAgent(j)

\* An agent is running after an agent of an earlier phase raised.
PhaseOrderingWitness ==
    \E i \in DOMAIN task : \E j \in DOMAIN task :
        /\ task[i] = "running"
        /\ agents[j].order < agents[i].order
        /\ Raised(j)

\* C2: the list returned by define_agents always holds an agent named
\* "Coordinator" whose order is 0, whatever the planning model answered.
CoordinatorAtOrderZero ==
    planTask = "done" =>
        \E i \in DOMAIN agents : agents[i].name = "Coordinator" /\ agents[i].order = 0

\* C3: for agents A and B with B not the Coordinator and B.order > A.order,
\* the context B's task was created with holds A's attributed output if and
\* only if A completed and is_relevant(A's result, B, task) returned true.
RelevancePropagation ==
    \A a \in DOMAIN task : \A b \in DOMAIN task :
        (Launched(b) /\ agents[b].name # "Coordinator"
                     /\ agents[b].order > agents[a].order)
        => (OutputEntry(agents, a) \in Range(taskCtx[b])
            <=> (Completed(a) /\ [from |-> a, to |-> b, ans |-> "YES"] \in relLog))

DistinctNames == \A i \in DOMAIN agents : \A j \in DOMAIN agents :
                    agents[i].name = agents[j].name => i = j

\* C3 for the teams whose agent names are pairwise distinct.
RelevancePropagationDistinct == DistinctNames => RelevancePropagation

\* C4: is_relevant is never evaluated with the Coordinator as the consumer, and
\* once the phases are over the Coordinator's context holds the output of
\* every other agent that completed, whatever the orders are.
CoordinatorUnfiltered ==
    /\ \A e \in relLog : agents[e.to].name # "Coordinator"
    /\ (synthInputs # <<>> /\ "Coordinator" \in NameSet(agents))
       => \A a \in DOMAIN task :
            (Completed(a) /\ agents[a].name # "Coordinator")
            => OutputEntry(agents, a) \in Range(agent_contexts["Coordinator"])

\* C4 for the teams whose Coordinator is in the first phase and is the only
\* agent of that name.
CoordinatorUnfilteredAtFront ==
    (/\ DistinctNames
     /\ \A i \in DOMAIN agents : agents[i].name = "Coordinator" =>
            \A j \in DOMAIN agents : agents[i].order <= agents[j].order)
    => CoordinatorUnfiltered

\* C6: when the execution of one agent raises, every agent is still executed, the
\* Synthesizer is invoked with the results of exactly the agents that did not
\* raise, the trace holds exactly one failure line for the agent that raised,
\* and the top-level handler is not entered from the phase loop.
AgentFailureIsolated ==
    /\ (pc \in {"failed", "raised"} /\ synthInputs = <<>>)
       => \A i \in DOMAIN task : ~Launched(i)
    /\ (synthInputs # <<>> /\ Cardinality({i \in DOMAIN task : Raised(i)}) = 1)
       => /\ \A i \in DOMAIN task : Launched(i)
          /\ DOMAIN synthInputs[1] = {agents[i].name : i \in {j \in DOMAIN task : Completed(j)}}
          /\ \A i \in DOMAIN task : Completed(i) => synthInputs[1][agents[i].name] = i
          /\ \A i \in DOMAIN task : Raised(i) => Cardinality(FailureLines(agents[i].name)) = 1

\* C6 for the teams whose agent names are pairwise distinct.
AgentFailureIsolatedDistinct == DistinctNames => AgentFailureIsolated

PendingTasks ==
    {AgentId(i) : i \in {j \in DOMAIN task : task[j] \in {"created", "running"}}}
    \cup (IF planTask = "running" THEN {PlanId} ELSE {})
    \cup (IF synthTask = "running" THEN {SynthId} ELSE {})

\* C7: pipe never raises to its caller; when it returns through the top-level
\* handler no task is left pending, the failed status is the last thing pipe
\* itself sent to the emitter (when one was supplied), and the text returned
\* is the progress trace followed by the error block.
PipeNeverRaises ==
    /\ pc # "raised"
    /\ pc = "failed" =>
        /\ PendingTasks = {}
        /\ output = [kind |-> "error", trace |-> progress_messages]
        /\ emitter # "none" =>
              (events # <<>> /\ events[Len(events)] = Event("status", "failed", ""))

\* C8: whenever pipe has stopped running, by whatever exit, none of the tasks
\* it created is still pending without having been cancelled.
NoOrphanedTasks == pc \in Terminal => PendingTasks = {}

\* C8 for the exits pipe makes itself: a return or an exception of its own.
NoOrphanedTasksOnOwnExit == pc \in (Terminal \ {"cancelled"}) => PendingTasks = {}

\* ---------------------------------------------------- claims on the gateway

\* C5: with caching enabled, any two calls with the identical (model,
\* messages, temperature) return the same text, and the backend is asked at
\* most once for that triple.
CachedCallsIdempotent ==
    valves.ENABLE_CACHING =>
        \A r \in Requests : Cardinality(returned[r]) <= 1 /\ primaryCalls[r] <= 1

\* C5 as amended: the same, for the triples whose cache key was never being
\* computed by two calls at one time.
SequentialCallsIdempotent ==
    valves.ENABLE_CACHING =>
        \A r \in Requests :
            CacheKey(r) \notin overlapped
            => (Cardinality(returned[r]) <= 1 /\ primaryCalls[r] <= 1)

\* A call answered from the cache entry that an earlier call with the same
\* triple stored, no two calls for the key having overlapped.
SequentialCallsWitness ==
    /\ valves.ENABLE_CACHING
    /\ \E c \in Callers :
        /\ call[c].pc = "done"
        /\ call[c].hit
        /\ primaryCalls[call[c].req] = 1
        /\ CacheKey(call[c].req) \notin overlapped

PrimaryFailed(rec) == rec.primary = "error"

\* C9: call_model never raises and makes at most two backend calls; after a
\* primary failure other than a timeout it makes exactly one more call, to the
\* fallback model with the same messages and temperature, and when that fails
\* too the text returned holds both failure messages.
FallbackOnce ==
    \A c \in Callers :
        LET rec == call[c]
        IN  /\ Len(rec.calls) <= 2
            /\ rec.ret.kind = "text"
            /\ PrimaryFailed(rec) =>
                  /\ Len(rec.calls) = 2
                  /\ rec.calls[1] = rec.req
                  /\ rec.calls[2] = [model |-> FallbackModel,
                                     messages |-> rec.req.messages,
                                     temperature |-> rec.req.temperature]
            /\ (rec.pc = "done" /\ PrimaryFailed(rec) /\ rec.fallback # "ok") =>
                  \E k1 \in DOMAIN rec.ret.body : \E k2 \in DOMAIN rec.ret.body :
                      /\ k1 # k2
                      /\ rec.ret.body[k1] = rec.err
                      /\ rec.ret.body[k2] = rec.ferr

\* A call to a model other than the fallback model whose primary call and
\* fallback call both failed.
FallbackOnceWitness ==
    \E c \in Callers :
        /\ call[c].pc = "done"
        /\ call[c].req.model # FallbackModel
        /\ PrimaryFailed(call[c])
        /\ call[c].fallback \in {"error", "timeout"}

\* C10: when the primary call times out, call_model returns the timeout
\* message as text, does not raise, and makes no fallback call.
TimeoutReturnsText ==
    \A c \in Callers :
        call[c].primary = "timeout" =>
            /\ call[c].pc = "done"
            /\ call[c].ret = TimeoutMessage(call[c].req.model)
            /\ call[c].ret.kind = "text"
            /\ call[c].calls = <<call[c].req>>

\* A call whose primary call timed out and that has returned.
TimeoutReturnsTextWitness ==
    \E c \in Callers : call[c].primary = "timeout" /\ call[c].pc = "done"

\* ------------------------------------------------- claims on pipe, continued

\* The fixed team of the specification: Coordinator, Analyst, Implementer.
DefaultTeam ==
    << [name |-> "Coordinator", order |-> 0],
       [name |-> "Analyst", order |-> 1],
       [name |-> "Implementer", order |-> 2] >>

\* What define_agents returns, looked at where pipe waits for it: the fixed
\* team for every answer without a usable JSON array of objects, and never an
\* empty list.
PlannerNeverEmpty ==
    /\ pc = "planning" =>
          \A resp \in PlannerResponses :
              /\ resp.kind # "json" => define_agents(resp) = DefaultTeam
              /\ define_agents(resp) # <<>>
    /\ planTask = "done" => agents # <<>>

JustStarted ==
    \/ pc \in {"planning", "noinput"}
    \/ pc \in {"failed", "raised"} /\ planTask = "none"

\* C12: a request without a user turn is answered at once with the
\* prompt-for-input text, with no planner, research, agent or synthesizer
\* call and no notification; for any other request the task is the content of
\* the last turn whose role is "user".
NoInputReturnsAtOnce ==
    /\ JustStarted =>
          (pc = "noinput" <=> \A k \in DOMAIN messages : messages[k].role # "user")
    /\ pc = "noinput" =>
          /\ output = [kind |-> "noinput", trace |-> <<>>]
          /\ planTask = "none" /\ synthTask = "none" /\ task = <<>>
          /\ active_tasks = {} /\ research_queries = 0 /\ synthInputs = <<>>
          /\ events = <<>> /\ progress_messages = <<>>
    /\ (JustStarted /\ pc # "noinput") =>
          \E k \in DOMAIN messages :
              /\ messages[k].role = "user"
              /\ \A j \in DOMAIN messages : j > k => messages[j].role # "user"
              /\ user_task = messages[k].content

\* A request that holds turns, none of them a user turn, was answered.
NoInputWitness == pc = "noinput" /\ messages # <<>>

\* C16: in every team returned by define_agents the agent names are pairwise
\* distinct and exactly one agent is named "Coordinator", so that pipe holds
\* one context entry per agent.
TeamNamesDistinct ==
    planTask = "done" =>
        /\ DistinctNames
        /\ Cardinality({i \in DOMAIN agents : agents[i].name = "Coordinator"}) = 1
        /\ (pc \in {"launch", "await", "relevance", "synth"}) =>
              Cardinality(DOMAIN agent_contexts) = Len(agents)

\* Position of a point of pipe in Init, Planning, Researching, Phase(k),
\* Synthesizing, Done; 6 for a point outside that sequence.
Stage(p) ==
    CASE p = "start" -> 0
      [] p = "planning" -> 1
      [] p \in {"research_plan", "browse", "summarize"} -> 2
      [] p \in {"launch", "await", "relevance"} -> 3
      [] p = "synth" -> 4
      [] p = "done" -> 5
      [] OTHER -> 6

\* The step moves pipe along the sequence: it stays in its stage or enters
\* the next one, Researching being entered exactly when browsing is enabled,
\* the phases being taken one after the other, each with a greater order
\* value than the one before, and Synthesizing after the last of them.
AlongTheSequence ==
    /\ Stage(pc') \in {Stage(pc), Stage(pc) + 1, Stage(pc) + 2}
    /\ Stage(pc') <= 5
    /\ Stage(pc') = Stage(pc) + 2 => (Stage(pc) = 1 /\ ~valves.BROWSING_ENABLED)
    /\ (Stage(pc) = 1 /\ Stage(pc') = 2) => valves.BROWSING_ENABLED
    /\ (Stage(pc) = 3 /\ Stage(pc') = 3) =>
          /\ phase' \in {phase, phase + 1}
          /\ phase' \in 1..Len(sorted_orders) + 1
          /\ \A k \in 1..Len(sorted_orders) - 1 : sorted_orders[k] < sorted_orders[k + 1]
    /\ (Stage(pc) = 3 /\ Stage(pc') = 4) => phase = Len(sorted_orders) + 1

\* No task is created and no model, search or fetch call is begun.
NothingStarts ==
    /\ \A i \in DOMAIN task :
          task'[i] \in {"created", "running"} => task'[i] = task[i]
    /\ planTask' = "running" => planTask = "running"
    /\ synthTask' = "running" => synthTask = "running"
    /\ UNCHANGED <<research_queries, queryPos, relLog, active_tasks>>

\* C17: a run of pipe with a user turn goes through Planning, Researching
\* (only when enabled), the phases in strictly ascending order value,
\* Synthesizing and Done in that order; it leaves this sequence only to
\* Failed, and after Done or Failed nothing is started. Steps of the host
\* (cancelling the coroutine) are not steps of pipe.
StagesInOrder ==
    [][/\ (pc' # pc /\ pc \notin Terminal /\ pc' \notin {"noinput", "cancelled"})
          => (AlongTheSequence \/ pc' = "failed")
       /\ (pc \in {"done", "failed"}) => (pc' = pc /\ NothingStarts)]_vars

\* C17 without the exit by an exception of pipe itself.
StagesInOrderUnlessRaised ==
    [][/\ (pc' # pc /\ pc \notin Terminal /\ pc' \notin {"noinput", "cancelled"})
          => (AlongTheSequence \/ pc' \in {"failed", "raised"})
       /\ (pc \in {"done", "failed"}) => (pc' = pc /\ NothingStarts)]_vars

\* C18: every external call ending, every invocation of pipe eventually
\* returns a text to its caller: the final response, the trace with the error
\* block, or the no-input message.
EventuallyReturnsText == <>(pc \in {"done", "failed", "noinput"})

\* C18 for the exit alone: every invocation eventually ends, by a returned
\* text or by an exception.
EventuallyExits == <>(pc \in {"done", "failed", "noinput", "raised"})

\* The step creates the run_agent task of agent i.
Launches(i) == task'[i] = "created" /\ task[i] # "created"

\* C21: each agent the planner returned is executed exactly once per run, in
\* the phase given by its order: a task is created for an agent only when it
\* has none yet and the current phase is the one of its order, and when the
\* phases are over every agent has had its task.
ExecutedOncePerRun ==
    /\ [](pc \in {"synth", "done"} =>
            \A i \in DOMAIN agents : task[i] \in {"ok", "exc"})
    /\ [][\A i \in DOMAIN task :
             Launches(i) => /\ task[i] = "none"
                            /\ pc = "launch"
                            /\ phase \in DOMAIN sorted_orders
                            /\ sorted_orders[phase] = agents[i].order]_vars

\* A team of more than one phase has been executed and synthesis has begun.
ExecutedOnceWitness ==
    /\ pc = "synth"
    /\ Len(sorted_orders) > 1
    /\ Len(agents) = MaxTeam + 1
    /\ \A i \in DOMAIN agents : task[i] \in {"ok", "exc"}

\* The agents whose results the mapping m holds.
Entered(m) == {m[n] : n \in DOMAIN m}

\* C22: the Synthesizer is invoked at most once in a run, only after every
\* phase has finished, and the mapping it receives holds an entry for exactly
\* the agents whose execution completed without raising.
SynthesizerInput ==
    /\ Len(synthInputs) <= 1
    /\ Len(synthInputs) = 1 =>
          /\ phase > Len(sorted_orders)
          /\ \A i \in DOMAIN agents : task[i] \in {"ok", "exc"}
          /\ Entered(synthInputs[1]) = {i \in DOMAIN agents : Completed(i)}

\* The same for teams whose names are pairwise distinct.
SynthesizerInputDistinct == DistinctNames => SynthesizerInput

\* Synthesis began with one agent completed and another failed.
SynthesizerInputWitness ==
    /\ pc = "synth"
    /\ DistinctNames
    /\ \E i, j \in DOMAIN agents : Completed(i) /\ Raised(j)
    /\ Entered(synthInputs[1]) = {i \in DOMAIN agents : Completed(i)}

\* pipe is inside the research step of lines 684-711.
Researching == pc \in {"research_plan", "browse", "summarize"}

\* C23: research runs only when BROWSING_ENABLED is set; query planning and
\* every search and summary are over before the first agent is launched; the
\* queries are taken one at a time, the search of a query starting only when
\* the search and summary of the one before it are over.
ResearchBeforeAgents ==
    /\ [](Researching =>
            /\ valves.BROWSING_ENABLED
            /\ \A i \in DOMAIN task : ~Launched(i))
    /\ [](~valves.BROWSING_ENABLED =>
            research_queries = 0 /\ all_summarized_research = <<>>)
    /\ [](pc \in {"browse", "summarize"} =>
            /\ queryPos \in 1..research_queries
            /\ \A k \in Range(all_summarized_research) : k < queryPos)
    /\ [][/\ Researching' => Researching \/ pc = "planning"
          /\ queryPos' # queryPos =>
                /\ queryPos' = queryPos + 1
                /\ pc' = "browse"
                /\ pc \in {"research_plan", "browse", "summarize"}
                /\ pc = "research_plan" => queryPos = 0]_vars

\* Both queries were searched and summarized and an agent has been launched.
ResearchBeforeAgentsWitness ==
    /\ valves.BROWSING_ENABLED
    /\ research_queries = MaxQueries
    /\ all_summarized_research = <<1, 2>>
    /\ \E i \in DOMAIN task : Launched(i)

\* The contexts have just been initialized (line 721 reached).
ContextsInitialized == pc = "launch" /\ phase = 1

\* C26: every agent's initial context is the task text, followed by the whole
\* research block exactly when research produced one, and it is the same for
\* all agents of the run.
InitialContextsFromTaskAndResearch ==
    ContextsInitialized =>
        \A i \in DOMAIN agents :
            LET c == agent_contexts[agents[i].name]
            IN  /\ c[1] = [kind |-> "task", from |-> "", text |-> <<user_task>>]
                /\ user_task \in Contents
                /\ IF all_summarized_research = <<>>
                   THEN Len(c) = 1
                   ELSE /\ Len(c) = 2
                        /\ c[2] = [kind |-> "research", from |-> "",
                                   text |-> all_summarized_research]
                /\ \A j \in DOMAIN agents : agent_contexts[agents[j].name] = c

\* A team of several agents starts from the task and a research block.
InitialContextsWitness ==
    /\ ContextsInitialized
    /\ Len(agents) > 1
    /\ all_summarized_research # <<>>
    /\ \A i \in DOMAIN agents : Len(agent_contexts[agents[i].name]) = 2

\* ----------------------------------------------------- claims on functions

\* C13: for every answer of the model, _get_research_queries returns a list
\* of between 0 and 3 query strings and does not raise.
AtMostThreeQueries ==
    (fn = "_get_research_queries" /\ res.done) =>
        /\ ~res.val.raised
        /\ Len(res.val.list) \in 0..3
        /\ \A k \in DOMAIN res.val.list : res.val.list[k] \in QueryStrings

\* C13 without the limit: a list of query strings, of any length, and no
\* exception.
QueriesNeverRaise ==
    (fn = "_get_research_queries" /\ res.done) =>
        /\ ~res.val.raised
        /\ \A k \in DOMAIN res.val.list : res.val.list[k] \in QueryStrings

\* ------------------------------------------- claims on the gateway, continued

\* The step is the start of a call by caller c.
CallBegins(c) ==
    /\ call[c].pc \in {"idle", "done"}
    /\ started' = started + 1
    /\ lastCaller' = c


\* The call c begins goes to the backend: one completions.create call with
\* the caller's arguments, and no answer yet.
ReachesBackend(c) ==
    /\ call'[c].pc = "primary"
    /\ call'[c].calls = <<call'[c].req>>
    /\ primaryCalls'[call'[c].req] = primaryCalls[call'[c].req] + 1

\* The call c begins ends in call_model's client check, with the
\* initialisation error text and no completions.create call.
StopsAtClientCheck(c) ==
    /\ client = "none"
    /\ call'[c].pc = "done"
    /\ call'[c].ret = ClientErrorMessage
    /\ call'[c].calls = <<>>
    /\ primaryCalls' = primaryCalls

\* A call that did not take the caching path leaves the cache as it is, when
\* it begins and when it returns.
BypassLeavesCache(c) ==
    /\ (CallBegins(c) /\ ~valves.ENABLE_CACHING) =>
          (~call'[c].cached /\ ~call'[c].hit /\ cache' = cache)
    /\ (call[c].pc \in {"primary", "fallback"} /\ ~call[c].cached
           /\ call'[c].pc = "done") => cache' = cache

\* C14: with ENABLE_CACHING false, every call to call_model_with_cache reaches
\* the backend through call_model, and the cache is neither read nor modified.
UncachedCallsReachBackend ==
    [][\A c \in Callers :
          /\ BypassLeavesCache(c)
          /\ (CallBegins(c) /\ ~valves.ENABLE_CACHING) => ReachesBackend(c)]_vars

\* C14 as amended: with ENABLE_CACHING false, every call is handed to
\* call_model, which asks the backend unless the client cannot be built; the
\* cache is neither read nor modified.
UncachedCallsReachCallModel ==
    [][\A c \in Callers :
          /\ BypassLeavesCache(c)
          /\ (CallBegins(c) /\ ~valves.ENABLE_CACHING) =>
                (ReachesBackend(c) \/ StopsAtClientCheck(c))]_vars

\* With caching switched off, a call whose key is in the cache is waiting for
\* the backend.
UncachedCallWitness ==
    /\ ~valves.ENABLE_CACHING
    /\ \E c \in Callers :
        /\ call[c].pc = "primary"
        /\ ~call[c].cached
        /\ CacheKey(call[c].req) \in DOMAIN cache

\* The call c begins is answered at line 188 with the text ret: no backend
\* call, no fallback.
AnsweredFromCache(c, ret) ==
    /\ call'[c].pc = "done"
    /\ call'[c].hit
    /\ call'[c].ret = ret
    /\ call'[c].calls = <<>>
    /\ call'[c].primary = "" /\ call'[c].fallback = ""
    /\ primaryCalls' = primaryCalls

\* C15: with caching enabled, once a call has returned an error payload
\* (timeout, or primary and fallback both failed), every later call with the
\* same (model, messages, temperature) returns that same text without any
\* backend call and without the fallback logic.
CachedErrorReplayed ==
    [][\A c \in Callers : \A r \in Requests : \A e \in returned[r] :
          (valves.ENABLE_CACHING /\ CallBegins(c) /\ call'[c].req = r
             /\ ErrorPayload(e))
          => AnsweredFromCache(c, e)]_vars

\* C15 as amended: the same, for the triples whose cache key was never being
\* computed by two calls at one time.
SequentialErrorReplayed ==
    [][\A c \in Callers : \A r \in Requests : \A e \in returned[r] :
          (valves.ENABLE_CACHING /\ CallBegins(c) /\ call'[c].req = r
             /\ ErrorPayload(e) /\ CacheKey(r) \notin overlapped)
          => AnsweredFromCache(c, e)]_vars

\* A call answered from the cache with a failure message that one backend
\* round produced, no two calls for the key having overlapped.
ErrorReplayWitness ==
    /\ valves.ENABLE_CACHING
    /\ \E c \in Callers :
        /\ call[c].pc = "done"
        /\ call[c].hit
        /\ ErrorPayload(call[c].ret)
        /\ primaryCalls[call[c].req] = 1
        /\ CacheKey(call[c].req) \notin overlapped

\* The citation ids ids follow the keys key of the ranked results: the k-th
\* distinct key seen gets id k, so equal keys share an id, different keys do
\* not, and the ids used are 1..n for n distinct keys.
FirstSeenNumbering(ids, key) ==
    /\ DOMAIN ids = DOMAIN key
    /\ \A i \in DOMAIN ids : \A j \in DOMAIN ids : (ids[i] = ids[j]) <=> (key[i] = key[j])
    /\ {ids[i] : i \in DOMAIN ids} = 1..Cardinality({key[i] : i \in DOMAIN key})
    /\ \A i \in DOMAIN ids : ids[i] = Cardinality({key[j] : j \in 1..i})
                                \/ \E j \in 1..(i - 1) : key[j] = key[i]

\* C19: citation ids are assigned over the returned results in rank order so
\* that the k-th distinct source seen gets id k: two results have the same id
\* if and only if they have the same source, and the ids used are exactly
\* 1..n for n distinct sources.
CitationIdsBySource ==
    (fn = "query_rag_for_user" /\ res.done) =>
        FirstSeenNumbering(res.val, [k \in DOMAIN arg |-> arg[k].source])

\* C19 as amended: the same, with every result that names no source counted
\* as having the source "N/A".
CitationIdsBySourceId ==
    (fn = "query_rag_for_user" /\ res.done) =>
        FirstSeenNumbering(res.val, [k \in DOMAIN arg |-> SourceId(arg[k])])

\* Sources [a, b, a] got the ids [1, 2, 1].
CitationIdsWitness ==
    /\ fn = "query_rag_for_user"
    /\ res.done
    /\ arg = <<[source |-> "a.pdf"], [source |-> "b.pdf"], [source |-> "a.pdf"]>>
    /\ res.val = <<1, 2, 1>>

\* The default template with the context and the query each in place of its
\* placeholder.
Filled(context, query) ==
    <<DEFAULT_RAG_TEMPLATE[1]>> \o context \o <<DEFAULT_RAG_TEMPLATE[3]>> \o query

\* C20: for every response, format_sources_for_llm with the default template
\* returns one string that holds the response's context_string unaltered and
\* the response's query text unaltered, each in place of its placeholder.
FormatKeepsContextAndQuery ==
    (fn = "format_sources_for_llm" /\ res.done /\ arg.context_string.given) =>
        res.val = Filled(arg.context_string.text, arg.query)

\* C20 for the context strings that hold neither [query] nor {{QUERY}}.
FormatKeepsPlainContext ==
    (fn = "format_sources_for_llm" /\ res.done /\ arg.context_string.given
       /\ \A k \in DOMAIN arg.context_string.text :
             arg.context_string.text[k] \notin {"[query]", "{{QUERY}}"}) =>
        res.val = Filled(arg.context_string.text, arg.query)

\* The search and the reads gave no fetched content: no results, no URLs, or
\* no readable content in any response.
NoFetchedContent(out) ==
    \/ out.search \in {"no_data", "no_urls"}
    \/ out.search = "urls" /\ \A k \in DOMAIN out.reads : out.reads[k] = "empty"

Placeholders == {NoResultsMessage, NoUrlsMessage, NoContentMessage}

ResearchStepDone == fn = "research_step" /\ res.done

\* C24: for a query whose search and reads yield no fetched content the
\* research step has a descriptive placeholder and hands nothing to the
\* summarizer.
PlaceholderNotSummarized ==
    ResearchStepDone /\ NoFetchedContent(arg) =>
        /\ res.val.raw \in Placeholders
        /\ res.val.summarized = <<>>

\* The part of C24 that holds: the placeholder is what the search returns.
PlaceholderReturned ==
    ResearchStepDone /\ NoFetchedContent(arg) => res.val.raw \in Placeholders

\* Some read of the outcome failed.
SomeReadFailed(out) ==
    \E k \in DOMAIN out.reads :
        out.reads[k] \in {"http_error", "json_error", "other_error", "failed"}

\* The text holds the source piece of every read that gave content.
HoldsFetchedContent(text, out) ==
    \A k \in DOMAIN out.reads :
        out.reads[k] = "content" =>
            \E at \in 0..Len(text) :
                /\ at + Len(ReadPiece(k, "content")) <= Len(text)
                /\ SubSeq(text, at + 1, at + Len(ReadPiece(k, "content")))
                      = ReadPiece(k, "content")

\* C25: when one read of a query fails and another gives content, the failure
\* only adds a marker: what is summarized for the query holds the content of
\* every read that succeeded.
FailedReadKeepsSiblings ==
    /\ ResearchStepDone
    /\ arg.search = "urls"
    /\ SomeReadFailed(arg)
    /\ \E k \in DOMAIN arg.reads : arg.reads[k] = "content"
    => /\ Len(res.val.summarized) = 1
       /\ HoldsFetchedContent(res.val.summarized[1], arg)

\* The part of C25 that holds: the text browse_for_information returns keeps
\* the content of the sibling reads next to the marker.
FailedReadKeepsSiblingsInRaw ==
    ResearchStepDone /\ arg.search = "urls" /\ SomeReadFailed(arg)
        => HoldsFetchedContent(res.val.raw, arg)

DefineAgentsDone == fn = "define_agents" /\ res.done

\* The planner's objects as define_agents coerces them, the Coordinator it
\* adds included.
Written(resp) == EnsureCoordinator(resp.agents)

\* C27: every agent define_agents returns has an integer order; an agent whose
\* order was missing or not an integer has order 0, and one whose order was
\* an integer keeps it.
OrdersAreIntegers ==
    DefineAgentsDone =>
        /\ \A i \in DOMAIN res.val.agents : res.val.agents[i].order \in Int
        /\ arg.kind = "json" =>
              /\ Len(res.val.agents) = Len(Written(arg))
              /\ \A i \in DOMAIN res.val.agents :
                    /\ res.val.agents[i].name = Written(arg)[i].name
                    /\ Written(arg)[i].order.isInt =>
                          res.val.agents[i].order = Written(arg)[i].order.val
                    /\ ~Written(arg)[i].order.isInt =>
                          res.val.agents[i].order = 0

\* A team in which one order was kept and another was replaced by 0.
OrdersAreIntegersWitness ==
    /\ DefineAgentsDone
    /\ arg.kind = "json"
    /\ \E i, j \in DOMAIN arg.agents :
          /\ arg.agents[i].order = [isInt |-> FALSE, val |-> 1]
          /\ arg.agents[j].order = [isInt |-> TRUE, val |-> 1]
    /\ \E i, j \in DOMAIN res.val.agents :
          res.val.agents[i].order = 0 /\ res.val.agents[j].order = 1

\* C28: every agent define_agents returns has a non-negative integer order,
\* so phase 0 is the first phase of the schedule.
OrdersNonNegative ==
    DefineAgentsDone =>
        /\ \A i \in DOMAIN res.val.agents : res.val.agents[i].order \in Nat
        /\ res.val.sorted_orders[1] = 0

\* The same for answers without a negative order and with a Coordinator that
\* is written at order 0 or not written at all.
OrdersNonNegativeAsWritten ==
    /\ DefineAgentsDone
    /\ \A i \in DOMAIN arg.agents :
          /\ arg.agents[i].order.isInt => arg.agents[i].order.val >= 0
          /\ arg.agents[i].name = "Coordinator" =>
                CoerceOrder(arg.agents[i]).order = 0
    => /\ \A i \in DOMAIN res.val.agents : res.val.agents[i].order \in Nat
       /\ res.val.sorted_orders[1] = 0

\* run_agent has chosen its model for the call arg.
RunAgentCalled == fn = "run_agent" /\ DOMAIN res.val # {}

\* The specialty or the task text holds a keyword of lines 497-508.
HasKeyword(agent) ==
    \/ \E kw \in SpecialtyKeywords : Contains(Lower(agent.specialty), kw)
    \/ \E kw \in TaskKeywords : Contains(Lower(Join(agent.tasks)), kw)

\* C29 as stated: the coordinator-tier model when the name or the role holds a
\* word starting with "coordinat"; otherwise the deep-reasoning model when the
\* specialty or the task text holds a keyword; otherwise the execution-tier
\* model.
ModelByCoordinatWord ==
    RunAgentCalled =>
        res.val.model =
            IF \/ HasWordStarting(arg.agent.name, CoordinatStem)
               \/ HasWordStarting(arg.agent.role, CoordinatStem)
            THEN "COORDINATOR_MODEL"
            ELSE IF HasKeyword(arg.agent) THEN "THINKING_MODEL"
            ELSE "EXECUTION_MODEL"

\* The name is "coordinator" in some letter case.
NamedCoordinator(agent) ==
    /\ Len(agent.name) = Len(CoordinatorName)
    /\ \A k \in DOMAIN agent.name : Lower(agent.name)[k] = CoordinatorName[k]

\* The role holds "coordinate" in some letter case, at any place.
RoleCoordinates(agent) ==
    \E k \in DOMAIN agent.role :
        /\ k + Len(CoordinateWord) - 1 <= Len(agent.role)
        /\ \A j \in DOMAIN CoordinateWord :
              Lower(agent.role)[k + j - 1] = CoordinateWord[j]

\* C29 (amended): the coordinator-tier model when the lower-cased name is
\* exactly "coordinator" or the lower-cased role holds "coordinate"; otherwise
\* the deep-reasoning model when the specialty or the task text holds a
\* keyword; otherwise the execution-tier model.
ModelByFirstMatch ==
    RunAgentCalled =>
        /\ NamedCoordinator(arg.agent) \/ RoleCoordinates(arg.agent)
              => res.val.model = "COORDINATOR_MODEL"
        /\ ~NamedCoordinator(arg.agent) /\ ~RoleCoordinates(arg.agent)
              /\ HasKeyword(arg.agent)
              => res.val.model = "THINKING_MODEL"
        /\ ~NamedCoordinator(arg.agent) /\ ~RoleCoordinates(arg.agent)
              /\ ~HasKeyword(arg.agent)
              => res.val.model = "EXECUTION_MODEL"

\* A "Lead Coordinator" who is "Coordinating the team" and has no keyword gets
\* the execution-tier model; the Coordinator with a keyword gets its own tier.
ModelByFirstMatchWitness ==
    /\ RunAgentCalled
    /\ arg.agent.name = <<"L", "e", "a", "d", " ", "C", "o", "o", "r", "d", "i", "n", "a", "t", "o", "r">>
    /\ arg.agent.role = <<"C", "o", "o", "r", "d", "i", "n", "a", "t", "i", "n", "g", " ", "t", "h", "e", " ", "t", "e", "a", "m">>
    /\ ~HasKeyword(arg.agent)
    /\ res.val.model = "EXECUTION_MODEL"

\* The types of the events run_agent has emitted, in order.
EmittedTypes == [k \in DOMAIN res.val.emitted |->
                    <<res.val.emitted[k].type, res.val.emitted[k].status>>]

\* Thinking before the Gateway returns; the preview and Completed after it.
EmitsAroundCall ==
    /\ RunAgentCalled /\ Visualizes(arg) /\ ~res.done =>
          EmittedTypes = << <<"agent_status", "Thinking...">> >>
    /\ RunAgentCalled /\ Visualizes(arg) /\ res.done =>
          EmittedTypes = << <<"agent_status", "Thinking...">>,
                            <<"agent_result", "">>,
                            <<"agent_status", "Completed.">> >>
    /\ RunAgentCalled /\ ~Visualizes(arg) => res.val.emitted = <<>>

\* C30 as stated: with visualization, "thinking" is emitted before the Gateway
\* call, the preview and "completed" after it, and the preview is never longer
\* than 500 characters.
PreviewWithinLimit ==
    /\ EmitsAroundCall
    /\ RunAgentCalled /\ Visualizes(arg) /\ res.done =>
          Len(res.val.emitted[2].result) <= PreviewLimit

\* C30 (amended): the events are emitted in that order, and the preview is the
\* result itself when it has at most 500 characters, otherwise its first 500
\* characters followed by "...": never longer than 503.
PreviewWithinLimitAndEllipsis ==
    /\ EmitsAroundCall
    /\ RunAgentCalled /\ Visualizes(arg) /\ res.done =>
          LET shown == res.val.emitted[2].result
          IN  /\ Len(shown) <= PreviewLimit + 3
              /\ Len(arg.result) <= PreviewLimit => shown = arg.result
              /\ Len(arg.result) > PreviewLimit =>
                    /\ Len(shown) = PreviewLimit + 3
                    /\ \A k \in 1..PreviewLimit : shown[k] = arg.result[k]
                    /\ \A k \in 1..3 : shown[PreviewLimit + k] = "."

\* A result of more than 500 characters was shown, and run_agent returned it
\* whole.
PreviewWitness ==
    /\ RunAgentCalled /\ Visualizes(arg) /\ res.done
    /\ Len(arg.result) = PreviewLimit + 100
    /\ Len(res.val.emitted[2].result) = PreviewLimit + 3
    /\ res.val.returned = <<arg.result>>

\* ------------------------------------------------ further claims on the gateway

\* Caller c's last call was answered from the cache with a text call_model
\* got from a completions.create call or made of its failure.
HitOnBackendEntry(c) ==
    /\ call[c].pc = "done"
    /\ call[c].hit
    /\ call[c].ret # ClientErrorMessage

\* C31: a cache hit returns only what was stored for exactly the same (model,
\* messages, temperature): a call answered from the cache has a request for
\* which the backend was called before.
HitOnlyForOwnRequest ==
    \A c \in Callers : HitOnBackendEntry(c) => primaryCalls[call[c].req] > 0

\* The part of C31 that holds: a hit is for a request whose model and
\* temperature are those of a request the backend was called for.
HitOnlyForOwnModel ==
    \A c \in Callers :
        HitOnBackendEntry(c) =>
            \E r \in Requests :
                /\ primaryCalls[r] > 0
                /\ r.model = call[c].req.model
                /\ r.temperature = call[c].req.temperature

\* The step ends a call of c that missed the cache and went to the backend.
MissReturns(c) ==
    /\ call[c].pc \in {"primary", "fallback"}
    /\ call'[c].pc = "done"
    /\ call[c].cached

\* The step takes c's call past a cache miss into its completions.create call.
MissCallsBackend(c) == call[c].pc # "primary" /\ call'[c].pc = "primary"

\* C32: calls that miss the cache each make their own backend call; when one
\* of them returns, the entry of its key holds its response, so after two
\* concurrent identical calls it holds that of the one that finished last;
\* an entry once present is never removed.
LastWriterWins ==
    [][/\ \A c \in Callers :
            /\ MissCallsBackend(c) =>
                  primaryCalls'[call'[c].req] = primaryCalls[call'[c].req] + 1
            /\ MissReturns(c) =>
                  /\ CacheKey(call[c].req) \in DOMAIN cache'
                  /\ cache'[CacheKey(call[c].req)] = call'[c].ret
       /\ DOMAIN cache \subseteq DOMAIN cache']_vars

\* Two identical calls overlapped, both missed, and got different answers; the
\* entry holds one of the two.
LastWriterWinsWitness ==
    \E c, d \in Callers :
        /\ c # d
        /\ call[c].pc = "done" /\ call[d].pc = "done"
        /\ call[c].req = call[d].req
        /\ call[c].cached /\ call[d].cached
        /\ ~call[c].hit /\ ~call[d].hit
        /\ call[c].primary = "ok" /\ call[d].primary = "ok"
        /\ call[c].ret # call[d].ret
        /\ CacheKey(call[c].req) \in overlapped
        /\ primaryCalls[call[c].req] = 2
        /\ cache[CacheKey(call[c].req)] = call[d].ret

\* ------------------------------------------------ claims on the RAG client

QueryRagReturned == fn = "query_rag_for_user: rank" /\ res.done /\ res.val.kind = "response"

\* Every result the queries of the call gave.
AllResultsOf(c) == Range(MergeResults(c.queries))

\* C33: the results are in non-increasing score order, each at least the
\* threshold, at most top_k of them, total_results is their number, and no
\* result left out that meets the threshold scores higher than a returned one.
RankedAndCut ==
    QueryRagReturned =>
        LET out == res.val.results
        IN  /\ \A i, j \in DOMAIN out :
                  i < j => out[i].relevance_score >= out[j].relevance_score
            /\ \A i \in DOMAIN out : out[i].relevance_score >= arg.relevance_threshold
            /\ Len(out) <= arg.top_k
            /\ res.val.total_results = Len(out)
            /\ Range(out) \subseteq AllResultsOf(arg)
            /\ \A i, j \in DOMAIN out : i # j => out[i] # out[j]
            /\ \A r \in AllResultsOf(arg) \ Range(out) :
                  r.relevance_score >= arg.relevance_threshold =>
                      /\ Len(out) = arg.top_k
                      /\ \A i \in DOMAIN out :
                            out[i].relevance_score >= r.relevance_score

\* Four results of two collections, one below the threshold, one cut by top_k.
RankedAndCutWitness ==
    /\ QueryRagReturned
    /\ Cardinality(AllResultsOf(arg)) = 4
    /\ arg.top_k = 2
    /\ arg.relevance_threshold = 50
    /\ Len(res.val.results) = 2
    /\ \E r \in AllResultsOf(arg) : r.relevance_score < 50
    /\ \E r \in AllResultsOf(arg) \ Range(res.val.results) : r.relevance_score >= 50

\* C34: the relevance_score of every result is max(0, 1 - d/2) for its
\* distance d and lies between 0 and 1 (here in hundredths).
ScoreInUnitRange ==
    QueryRagReturned =>
        \A k \in DOMAIN res.val.results :
            LET r == res.val.results[k]
            IN  /\ 2 * r.relevance_score \in {0, 200 - r.distance}
                /\ 2 * r.relevance_score >= 200 - r.distance
                /\ r.relevance_score >= 0
                /\ r.relevance_score <= 100

\* The part of C34 that holds: the score is max(0, 1 - d/2), so at least 0.
ScoreFromDistance ==
    QueryRagReturned =>
        \A k \in DOMAIN res.val.results :
            LET r == res.val.results[k]
            IN  /\ 2 * r.relevance_score \in {0, 200 - r.distance}
                /\ 2 * r.relevance_score >= 200 - r.distance
                /\ r.relevance_score >= 0

QueryRagDone == fn = "query_rag_for_user: rank" /\ res.done

\* The documents of the collections whose query did not fail.
SucceededDocs(c) ==
    UNION {{[collection |-> KnowledgeBases[ci], doc |-> k,
             distance |-> c.queries[ci].distances[k],
             relevance_score |-> RelevanceScore(c.queries[ci].distances[k])] :
                k \in DOMAIN c.queries[ci].distances} :
           ci \in {x \in DOMAIN c.queries : ~c.queries[x].failed}}

\* C35: a collection whose query fails contributes nothing and does not stop
\* the call: the results of the other collections are merged, ranked and
\* returned; the call raises only when the collection list cannot be fetched
\* or is empty.
FailedCollectionSkipped ==
    QueryRagDone =>
        /\ res.val.kind = "raise" <=> arg.list = "error" \/ arg.queries = <<>>
        /\ res.val.kind = "response" =>
              /\ Range(res.val.results) \subseteq SucceededDocs(arg)
              /\ \A r \in SucceededDocs(arg) :
                    r.relevance_score >= arg.relevance_threshold =>
                        \/ r \in Range(res.val.results)
                        \/ Len(res.val.results) = arg.top_k
              /\ Len(res.val.collections_searched) = Len(arg.queries)

\* The first collection's query failed and the two documents of the second
\* are returned.
FailedCollectionWitness ==
    /\ QueryRagDone
    /\ Len(arg.queries) = 2
    /\ arg.queries[1].failed
    /\ Len(arg.queries[2].distances) = 2
    /\ res.val.kind = "response"
    /\ Len(res.val.results) = 2

\* ------------------------------------------- claims on the companion filter

Uploads == {t \in handled : t.kind = "upload"}

\* First half of C36: a file for whose hash the chat meta holds a file id
\* expiring more than a day ahead is not uploaded; that id is inserted as an
\* input_file block at the head of the last user message.
CachedFileReused ==
    \A t \in handled :
        t.stored # {} =>
            /\ t.kind = "reuse"
            /\ t.file_id \in t.stored
            /\ t.role = "user"
            /\ t.block = InputFile(t.file_id)

\* Second half of C36: any other file is uploaded and its new id is saved to
\* the chat meta.
UncachedFileUploadedAndSaved ==
    \A t \in handled : t.stored = {} => t.kind = "upload" /\ t.saved

\* The chat's row is found and no update of it raised.
SavesSucceed == chat_id \in DOMAIN chats /\ \A t \in Uploads : t.saved

\* C36: with chat meta caching enabled, a spreadsheet file with a cached
\* entry expiring more than one day ahead is not uploaded and the cached id
\* is inserted into the last user message; any other file is uploaded and
\* its new id is saved to the chat meta.  Stated for the runs in which the
\* chat meta can be written.
CachedOrUploadedAndSaved ==
    (ChatMetaCaching /\ SavesSucceed)
        => CachedFileReused /\ UncachedFileUploadedAndSaved

\* C36 without that restriction.
CachedOrUploadedAndSavedAlways ==
    ChatMetaCaching => CachedFileReused /\ UncachedFileUploadedAndSaved

\* C37: with chat meta caching enabled, no file content is uploaded again
\* while the id of an earlier upload of it is cached with an expiry more than
\* one day ahead.
UploadedOnceWhileCached ==
    ChatMetaCaching =>
        \A t1 \in Uploads, t2 \in Uploads :
            t1.hash = t2.hash => t1.file_id \notin t2.stored

\* ------------------------------------------- further claims on the phases

\* The outputs held by the context agent i was launched with, as the indices
\* of the agents that produced them.
OutputsPassedTo(i) ==
    {taskCtx[i][k].text[1] :
        k \in {n \in DOMAIN taskCtx[i] : taskCtx[i][n].kind = "output"}}

\* C38: the context an agent's execution is created with holds, after the
\* task and the research block, only outputs of agents of strictly lower
\* order: none of its own phase, of a later phase, or of the agent itself.
ContextOnlyFromLowerOrders ==
    \A i \in DOMAIN agents :
        Launched(i) =>
            /\ \A k \in DOMAIN taskCtx[i] :
                  taskCtx[i][k].kind \in {"task", "research", "output"}
            /\ \A p \in OutputsPassedTo(i) :
                  /\ agents[p].order < agents[i].order
                  /\ p # i

\* An agent was launched with the output of an earlier agent in its context.
ContextFromLowerOrderWitness ==
    \E i \in DOMAIN agents : Launched(i) /\ OutputsPassedTo(i) # {}

CompletedLines(name) ==
    {k \in DOMAIN progress_messages : progress_messages[k] = Line("completed", name)}

\* The outcome lines of agent i number one, and it is a "completed" line
\* exactly when the mapping m holds a result under the agent's name.
OneOutcomeLine(i, m) ==
    /\ Cardinality(CompletedLines(agents[i].name))
         + Cardinality(FailureLines(agents[i].name)) = 1
    /\ CompletedLines(agents[i].name) # {} <=> agents[i].name \in DOMAIN m

\* C39: once the Synthesizer is invoked, the progress trace holds exactly one
\* outcome line for every agent, "completed" or "failed" and never both, and
\* the agents with a "completed" line are those whose result is in the
\* mapping given to the Synthesizer.
OneOutcomeLinePerAgent ==
    synthInputs # <<>> => \A i \in DOMAIN agents : OneOutcomeLine(i, synthInputs[1])

\* C39 for the teams whose agent names are pairwise distinct.
OneOutcomeLinePerAgentDistinct == DistinctNames => OneOutcomeLinePerAgent

\* C39 for the runs in which no relevance evaluation raised and the names are
\* pairwise distinct.
OneOutcomeLineUnlessRelevanceRaises ==
    (DistinctNames /\ \A e \in relLog : e.ans # "raise") => OneOutcomeLinePerAgent

\* is_relevant answered true for the output of agent p and a consumer of the
\* name of agent i.
RelevantFor(p, i) ==
    \E e \in relLog :
        e.from = p /\ e.ans = "YES" /\ agents[e.to].name = agents[i].name

\* C40: no agent execution reads an output that was added to its context
\* without a positive relevance decision: the unconditional appends to the
\* Coordinator's context come after the Coordinator was launched.
ReadsOnlyRelevantOutputs ==
    \A i \in DOMAIN agents :
        Launched(i) => \A p \in OutputsPassedTo(i) : RelevantFor(p, i)

\* C40 for the teams whose agent names are pairwise distinct.
ReadsOnlyRelevantOutputsDistinct == DistinctNames => ReadsOnlyRelevantOutputs

====
